---- MODULE Spec2Model ----
(***************************************************************************)
(* A model of commit-agent-cli: the LangGraph agent/tools state machine    *)
(* built by getApp, the seven tool handlers, and the post-processing of    *)
(* the terminal answer in generateCommitMessage (src/src/agent.ts); the    *)
(* staged-diff compactor getStagedDiffSmart (src/src/git.ts); and the two  *)
(* versions of main with their review loops (src/src/index.ts).            *)
(*                                                                         *)
(* Strings are sequences of one-character strings, so that trim, the three *)
(* regular expressions and split/join are computed character by character. *)
(***************************************************************************)
EXTENDS Integers, Sequences, FiniteSets, TLC

VARIABLES
    node,       \* the session: "agent" | "tools" | "end" | "done" | "failed" | "idle"
    messages,   \* the transcript (MessagesAnnotation.State.messages)
    step,       \* the supersteps of the graph run so far (agent and tools turns)
    modelCalls, \* the calls of model.invoke made so far
    toolTurns,  \* the TOOLS turns completed so far
    calls,      \* the tool calls of the current TOOLS turn, in request order
    modelError, \* the error model.invoke rejected with, or NoValue
    thrown,     \* the error generateCommitMessage rejected with, or NoValue
    returned,   \* the string generateCommitMessage returned, or NoValue
    preferences,\* the preferences argument of generateCommitMessage
    sanIn,      \* sanitizer run: the terminal content (a string)
    sanPref,    \* sanitizer run: preferences.useConventionalCommits
    sanOut1,    \* sanitizer run: the result of one application
    sanOut2,    \* sanitizer run: the result of applying it to sanOut1
    sanPc,      \* sanitizer run: "idle" | "in" | "once" | "twice"
    sanSteps,   \* sanitizer run: the content after each step of the first application
    staged,     \* what git answers about the staged changes (getStagedDiffSmart)
    diffPc,     \* getStagedDiffSmart: "idle" | "in" | "out"
    bundle,     \* getStagedDiffSmart: the text it returned
    initial,    \* main: which main of index.ts runs, process.env and the config file at start
    mainPc,     \* main: the position in main
    processEnv, \* main: process.env, the API key variable of each provider
    stored,     \* main: the content of the config file (CONFIG_PATH)
    app,        \* agent.ts: the cached graph (`let app`): the key its model was built with
    index,      \* main: the number of files staged in the git index
    worktree,   \* main: the number of modified or untracked files not staged
    main,       \* main: its local variables
    attempts,   \* main: the calls of generateCommitMessage made so far
    ui,         \* main: what the terminal has shown and asked so far
    listing,    \* listDirTool: the stat lookups of one run between readdir and return
    recent      \* getRecentCommits: what git log printed and what was returned

graphVars ==
    <<node, messages, step, modelCalls, toolTurns, calls, modelError, thrown, returned,
      preferences>>

sanVars == <<sanIn, sanPref, sanOut1, sanOut2, sanPc, sanSteps>>

diffVars == <<staged, diffPc, bundle>>

mainVars == <<initial, mainPc, processEnv, stored, app, index, worktree, main, attempts, ui>>

auxVars == <<listing, recent>>

vars == <<node, messages, step, modelCalls, toolTurns, calls, modelError, thrown, returned,
          preferences,
          sanIn, sanPref, sanOut1, sanOut2, sanPc, sanSteps,
          staged, diffPc, bundle,
          initial, mainPc, processEnv, stored, app, index, worktree, main, attempts, ui,
          listing, recent>>

(***************************************************************************)
(* Bounds of the model.                                                    *)
(***************************************************************************)
\* the number of lines of a generated sanitizer input
MaxLines == 4

\* the model turns whose response and environment are drawn from the full sets;
\* a later turn answers, or asks for one fixed tool call when every turn before
\* it did the same
MaxRichTurns == 1

\* the number of tool calls in one Assistant message
MaxCalls == 2

\* the number of staged files
MaxFiles == 3

\* the number of calls of generateCommitMessage in one run of main
MaxAttempts == 2

\* the number of calls of generateCommitMessage in one run of the loop of main
MaxLoopAttempts == 3

\* the number of entries of a directory listed by list_dir
MaxEntries == 3

\* the number of commits git log prints for getRecentCommits
MaxCommits == 2

(***************************************************************************)
(* Characters and strings.                                                 *)
(***************************************************************************)
\* undefined / null / no value yet
NoValue == "NoValue"

NL == "\n"

UpperChars ==
    <<"A","B","C","D","E","F","G","H","I","J","K","L","M",
      "N","O","P","Q","R","S","T","U","V","W","X","Y","Z">>

LowerChars ==
    <<"a","b","c","d","e","f","g","h","i","j","k","l","m",
      "n","o","p","q","r","s","t","u","v","w","x","y","z">>

DigitChars == {"0","1","2","3","4","5","6","7","8","9"}

\* String.prototype.toLowerCase, one character
LowerChar(c) ==
    IF c \in {UpperChars[i] : i \in 1..26}
    THEN LowerChars[CHOOSE i \in 1..26 : UpperChars[i] = c]
    ELSE c

\* String.prototype.toLowerCase
ToLowerCase(s) == [i \in 1..Len(s) |-> LowerChar(s[i])]

\* the regular-expression class \s, which is also what trim() removes
IsSpace(c) == c \in {" ", NL, "\t", "\r"}

\* the regular-expression class \w
IsWordChar(c) ==
    \/ \E i \in 1..26 : UpperChars[i] = c \/ LowerChars[i] = c
    \/ c \in DigitChars
    \/ c = "_"

\* s with its first n characters removed
Drop(s, n) == SubSeq(s, n + 1, Len(s))

\* String.prototype.startsWith
StartsWith(s, p) == Len(s) >= Len(p) /\ SubSeq(s, 1, Len(p)) = p

RECURSIVE TrimStart(_)
TrimStart(s) ==
    IF s # <<>> /\ IsSpace(s[1]) THEN TrimStart(Tail(s)) ELSE s

RECURSIVE TrimEnd(_)
TrimEnd(s) ==
    IF s # <<>> /\ IsSpace(s[Len(s)]) THEN TrimEnd(SubSeq(s, 1, Len(s) - 1)) ELSE s

\* String.prototype.trim
Trim(s) == TrimEnd(TrimStart(s))

\* String.prototype.split('\n'): always at least one line
RECURSIVE Split(_)
Split(s) ==
    IF \E i \in 1..Len(s) : s[i] = NL
    THEN LET i == CHOOSE j \in 1..Len(s) : s[j] = NL /\ \A k \in 1..(j - 1) : s[k] # NL
         IN  <<SubSeq(s, 1, i - 1)>> \o Split(Drop(s, i))
    ELSE <<s>>

\* Array.prototype.join('\n')
RECURSIVE Join(_)
Join(ls) ==
    IF ls = <<>> THEN <<>>
    ELSE IF Len(ls) = 1 THEN ls[1]
    ELSE ls[1] \o <<NL>> \o Join(Tail(ls))

(***************************************************************************)
(* The sanitizer: the post-processing in generateCommitMessage.            *)
(***************************************************************************)
\* the alternation of the first pattern
PreamblePhrases ==
    << <<"H","e","r","e"," ","i","s">>,
       <<"H","e","r","e","'","s">>,
       <<"B","a","s","e","d"," ","o","n">>,
       <<"L","o","o","k","i","n","g"," ","a","t">>,
       <<"T","h","i","s"," ","i","s">>,
       <<"T","h","e"," ","c","o","m","m","i","t"," ","m","e","s","s","a","g","e"," ","i","s">>,
       <<"C","o","m","m","i","t"," ","m","e","s","s","a","g","e">> >>

\* the length of the phrase s starts with, case-insensitively (flag i); 0 if none
PreambleLen(s) ==
    LET low == ToLowerCase(s)
        hits == {i \in 1..Len(PreamblePhrases) :
                    StartsWith(low, ToLowerCase(PreamblePhrases[i]))}
    IN  IF hits = {} THEN 0
        ELSE Len(PreamblePhrases[CHOOSE i \in hits : \A j \in hits : i <= j])

\* the end of the lazy .*?: after position n: the index of the first colon that
\* no line break precedes ('.' does not match a line break); 0 if there is none
ColonAfter(s, n) ==
    LET cands == {j \in (n + 1)..Len(s) :
                     /\ s[j] = ":"
                     /\ \A k \in (n + 1)..(j - 1) : s[k] # ":" /\ s[k] # NL /\ s[k] # "\r"}
    IN  IF cands = {} THEN 0 ELSE CHOOSE j \in cands : TRUE

\* a faulty variant: .*? also runs across line breaks (the flag s)
StripPreambleAcrossLines(s) ==
    LET n == PreambleLen(s)
        cands == {j \in (n + 1)..Len(s) : s[j] = ":"}
    IN  IF n = 0 \/ cands = {} THEN s
        ELSE TrimStart(Drop(s, CHOOSE j \in cands : \A k \in cands : j <= k))

\* content.replace(/^(?:Here is|...|Commit message).*?:\s*/i, '')
StripPreamble(s) ==
    LET n == PreambleLen(s)
        c == ColonAfter(s, n)
    IN  IF n = 0 \/ c = 0 THEN s ELSE TrimStart(Drop(s, c))

RECURSIVE DropWordChars(_)
DropWordChars(s) ==
    IF s # <<>> /\ IsWordChar(s[1]) THEN DropWordChars(Tail(s)) ELSE s

\* the backtick character (the lexer of TLA+ takes no backtick in a string)
BQ == "BACKTICK"

Fence == <<BQ, BQ, BQ>>

\* content.replace(/^```[\w]*\n?/, '')
StripFenceOpen(s) ==
    IF StartsWith(s, Fence)
    THEN LET r == DropWordChars(Drop(s, 3))
         IN  IF r # <<>> /\ r[1] = NL THEN Tail(r) ELSE r
    ELSE s

\* content.replace(/\n?```$/, ''): $ is the end of the input (no flag m)
StripFenceClose(s) ==
    LET n == Len(s)
    IN  IF n >= 3 /\ SubSeq(s, n - 2, n) = Fence
        THEN IF n >= 4 /\ s[n - 3] = NL THEN SubSeq(s, 1, n - 4) ELSE SubSeq(s, 1, n - 3)
        ELSE s

\* for (const pattern of patterns) content = content.replace(pattern, '')
ApplyPatterns(s) == StripFenceClose(StripFenceOpen(StripPreamble(s)))

CommitPrefixes ==
    { <<"f","e","a","t",":">>, <<"f","i","x",":">>, <<"c","h","o","r","e",":">>,
      <<"d","o","c","s",":">>, <<"s","t","y","l","e",":">>,
      <<"r","e","f","a","c","t","o","r",":">>, <<"t","e","s","t",":">>,
      <<"p","e","r","f",":">>, <<"c","i",":">>, <<"b","u","i","l","d",":">>,
      <<"r","e","v","e","r","t",":">> }

\* commitPrefixes.some(prefix => line.trim().toLowerCase().startsWith(prefix))
IsCommitLine(line) ==
    LET low == ToLowerCase(Trim(line))
    IN  \E p \in CommitPrefixes : StartsWith(low, p)

\* lines.findIndex(...), zero-based, -1 when no line matches
FindCommitLineIndex(lines) ==
    LET hits == {i \in 1..Len(lines) : IsCommitLine(lines[i])}
    IN  IF hits = {} THEN -1
        ELSE (CHOOSE i \in hits : \A j \in hits : i <= j) - 1

\* a faulty variant: the extraction also runs for exactly three lines
ExtractCommitLinesFromThree(content, useConventionalCommits) ==
    LET lines == Split(content)
        commitLineIndex == FindCommitLineIndex(lines)
    IN  IF Len(lines) >= 3 /\ useConventionalCommits /\ commitLineIndex > 0
        THEN Trim(Join(Drop(lines, commitLineIndex)))
        ELSE content

\* if (lines.length > 3 && preferences.useConventionalCommits) { ... }
ExtractCommitLines(content, useConventionalCommits) ==
    LET lines == Split(content)
        commitLineIndex == FindCommitLineIndex(lines)
    IN  IF Len(lines) > 3 /\ useConventionalCommits /\ commitLineIndex > 0
        THEN Trim(Join(Drop(lines, commitLineIndex)))
        ELSE content

\* the post-processing of generateCommitMessage, from lastMsg.content to the return
Sanitize(content, useConventionalCommits) ==
    Trim(ExtractCommitLines(ApplyPatterns(Trim(content)), useConventionalCommits))

\* the content after each step of the post-processing: trim, the three
\* patterns in turn, the extraction of the commit lines, the final trim
SanitizeSteps(content, useConventionalCommits) ==
    LET c1 == Trim(content)
        c2 == StripPreamble(c1)
        c3 == StripFenceOpen(c2)
        c4 == StripFenceClose(c3)
        c5 == ExtractCommitLines(c4, useConventionalCommits)
    IN  <<c1, c2, c3, c4, c5, Trim(c5)>>

(***************************************************************************)
(* The tool registry. A string built by a handler is a record: its kind    *)
(* (which template produced it), the path or message it embeds, two        *)
(* numbers and, for a listing, its lines.                                  *)
(***************************************************************************)
Text(kind, path, n, m, lines) ==
    [kind |-> kind, path |-> path, n |-> n, m |-> m, lines |-> lines]

NoText == Text("none", <<>>, 0, 0, <<>>)

\* an observable step of a handler run: a console.log line or an access
Ev(ev, what, path, n) == [ev |-> ev, what |-> what, path |-> path, n |-> n]

\* how a piece of code ended: it returned a string or threw an error
Return(value, trace) == [outcome |-> "return", value |-> value, trace |-> trace]

Throw(message, trace) ==
    [outcome |-> "throw", value |-> Text("error", message, 0, 0, <<>>), trace |-> trace]

\* String.prototype.includes
Includes(s, sub) ==
    \E i \in 1..(Len(s) - Len(sub) + 1) : SubSeq(s, i, i + Len(sub) - 1) = sub

\* Math.min
Min(a, b) == IF a <= b THEN a ELSE b

\* Math.round(size / 1024)
RoundKB(size) == (2 * size + 1024) \div 2048

DotDot == <<".", ".">>

\* a faulty variant: no path is refused
ValidatePathNeverThrows(p) == FALSE

\* validatePath: throws for a path that contains '..'
ValidatePathThrows(p) == Includes(p, DotDot)

ParentDirsMessage ==
    <<"C","a","n","n","o","t"," ","a","c","c","e","s","s"," ",
      "p","a","r","e","n","t"," ","d","i","r","e","c","t","o","r","i","e","s">>

\* the message of an error thrown by fs/promises or by execa
SystemErrorMessage == <<"E","R","R">>

\* const MAX_SIZE = 50000
MAX_SIZE == 50000

\* const MAX_CHARS = 10000
MAX_CHARS == 10000

\* a faulty variant: a file of exactly MAX_SIZE bytes is refused too
TooLargeFromLimit(size) == size >= MAX_SIZE

\* if (stats.size > MAX_SIZE)
TooLarge(size) == size > MAX_SIZE

\* a faulty variant: a content of exactly MAX_CHARS characters is truncated too
TooLongFromLimit(length) == length >= MAX_CHARS

\* if (content.length > MAX_CHARS)
TooLong(length) == length > MAX_CHARS

\* the body of the try block of readFileTool; the event of an access carries
\* what the access answered (the size, the length), -1 when it failed
ReadFileBody(filePath, env) ==
    LET t1 == <<Ev("log", "reading", filePath, 0)>>
        t2 == t1 \o <<Ev("stat", "stat", filePath,
                         IF env.stat = "fail" THEN -1 ELSE env.size)>>
        t3 == t2 \o <<Ev("readFile", "readFile", filePath,
                         IF env.read = "fail" THEN -1 ELSE env.length)>>
    IN  IF ValidatePathThrows(filePath) THEN Throw(ParentDirsMessage, t1)
        ELSE IF env.stat = "fail" THEN Throw(SystemErrorMessage, t2)
        ELSE IF TooLarge(env.size)
             THEN Return(Text("too large", filePath, RoundKB(env.size), 0, <<>>), t2)
        ELSE IF env.read = "fail" THEN Throw(SystemErrorMessage, t3)
        ELSE IF TooLong(env.length)
             THEN Return(Text("content truncated", filePath, MAX_CHARS,
                              env.length - MAX_CHARS, <<>>), t3)
        ELSE Return(Text("content", filePath, env.length, 0, <<>>), t3)

\* catch (error) { return `<prefix>: ${error.message}` }
CatchToString(r, kind, path) ==
    IF r.outcome = "throw"
    THEN Return(Text(kind, path \o <<":">> \o r.value.path, 0, 0, <<>>), r.trace)
    ELSE r

\* a faulty variant: the error of the try block is thrown again, not turned into a string
CatchRethrows(r, kind, path) == r

\* one catch clause of a tool handler
Catch(r, kind, path) == CatchToString(r, kind, path)

\* readFileTool's handler
ReadFileHandler(args, env) ==
    Catch(ReadFileBody(args.filePath.v, env), "Error reading file", args.filePath.v)

\* a faulty variant: an entry whose stat fails is listed as a file
ListDirLineAlwaysTagged(e) ==
    [name |-> e.name, tag |-> IF e.stat = "dir" THEN "(DIR)" ELSE "(FILE)"]

\* what the stat of an entry answered: 1 a directory, 0 a file, -1 it failed
StatAnswer(st) == IF st = "fail" THEN -1 ELSE IF st = "dir" THEN 1 ELSE 0

\* files.map(async f => ...): the line of entry i, its own stat failure caught
ListDirLine(e) ==
    IF e.stat = "fail" THEN [name |-> e.name, tag |-> ""]
    ELSE [name |-> e.name, tag |-> IF e.stat = "dir" THEN "(DIR)" ELSE "(FILE)"]

\* the body of the try block of listDirTool
ListDirBody(dirPath, env) ==
    LET t1 == <<Ev("log", "listing directory", dirPath, 0)>>
        t2 == t1 \o <<Ev("readdir", "readdir", dirPath,
                         IF env.readdir = "fail" THEN -1 ELSE Len(env.entries))>>
        t3 == t2 \o [i \in 1..Len(env.entries) |->
                        Ev("stat", "stat", dirPath \o <<"/">> \o env.entries[i].name,
                           StatAnswer(env.entries[i].stat))]
    IN  IF ValidatePathThrows(dirPath) THEN Throw(ParentDirsMessage, t1)
        ELSE IF env.readdir = "fail" THEN Throw(SystemErrorMessage, t2)
        ELSE Return(Text("listing", <<>>, 0, 0,
                         [i \in 1..Len(env.entries) |-> ListDirLine(env.entries[i])]), t3)

\* listDirTool's handler
ListDirHandler(args, env) ==
    Catch(ListDirBody(args.dirPath.v, env), "Error listing directory", args.dirPath.v)

\* the number of lines `git log -n<n> --pretty=format:%s` prints in a repository
\* with `history` commits (a negative n is git's "no limit")
GitLogLines(n, history) == IF n < 0 THEN history ELSE Min(n, history)

\* await execa('git', [...], { reject: false }) followed by `stdout || fallback`:
\* a failing git has an empty stdout; execa itself may still throw
ExecaBody(log, env, lines, fallback) ==
    LET t1 == <<log>>
        t2 == t1 \o <<Ev("execa", "git", <<>>, 0)>>
    IN  IF env.exec = "throw" THEN Throw(SystemErrorMessage, t2)
        ELSE IF env.exec = "fail" \/ lines = 0 THEN Return(Text(fallback, <<>>, 0, 0, <<>>), t2)
        ELSE Return(Text("stdout", <<>>, lines, 0, <<>>), t2)

\* a faulty variant: the requested count is used as it is
UnlimitedCount(count) == count

\* const limitedCount = Math.min(count, 5)
LimitedCount(count) == Min(count, 5)

\* gitCommitHistoryTool's handler
GitCommitHistoryHandler(args, env) ==
    LET limitedCount == LimitedCount(args.count.k)
    IN  Catch(ExecaBody(Ev("log", "checking last commits", <<>>, limitedCount), env,
                        GitLogLines(limitedCount, env.history), "No commit history found"),
              "Error getting commit history", <<>>)

\* gitStagedFilesTool's handler
GitStagedFilesHandler(args, env) ==
    Catch(ExecaBody(Ev("log", "listing staged files", <<>>, 0), env, env.out,
                    "No staged files"),
          "Error getting staged files", <<>>)

\* gitUnstagedFilesTool's handler
GitUnstagedFilesHandler(args, env) ==
    Catch(ExecaBody(Ev("log", "listing unstaged files", <<>>, 0), env, env.out,
                    "No unstaged changes"),
          "Error getting unstaged files", <<>>)

\* gitUntrackedFilesTool's handler
GitUntrackedFilesHandler(args, env) ==
    Catch(ExecaBody(Ev("log", "listing untracked files", <<>>, 0), env, env.out,
                    "No untracked files"),
          "Error getting untracked files", <<>>)

\* git's option --output=<file>
OutputOption == <<"-","-","o","u","t","p","u","t","=">>

\* execa('git', ['diff', '--cached', filePath]) puts no '--' before filePath:
\* git reads a filePath that begins with '-' as an option, and with
\* --output=<file> it writes the diff to <file> and prints nothing
GitDiffWritesTo(filePath) ==
    IF StartsWith(filePath, OutputOption) /\ Len(filePath) > Len(OutputOption)
    THEN Drop(filePath, Len(OutputOption))
    ELSE <<>>

\* the body of the try block of gitShowFileDiffTool
GitShowFileDiffBody(filePath, env) ==
    LET file == GitDiffWritesTo(filePath)
        r == ExecaBody(Ev("log", "viewing diff for", filePath, 0), env,
                       IF file = <<>> THEN env.out ELSE 0, "No changes in this file")
    IN  IF file # <<>> /\ env.exec = "ok"
        THEN [r EXCEPT !.trace = r.trace \o <<Ev("write", "git diff --output", file, 0)>>]
        ELSE r

\* gitShowFileDiffTool's handler
GitShowFileDiffHandler(args, env) ==
    Catch(GitShowFileDiffBody(args.filePath.v, env), "Error getting file diff", <<>>)

\* export const tools = [...]
ToolNames ==
    {"read_file", "list_dir", "git_commit_history", "git_staged_files",
     "git_unstaged_files", "git_untracked_files", "git_show_file_diff"}

\* the handler registered under a tool name
Handler(name, args, env) ==
    CASE name = "read_file" -> ReadFileHandler(args, env)
      [] name = "list_dir" -> ListDirHandler(args, env)
      [] name = "git_commit_history" -> GitCommitHistoryHandler(args, env)
      [] name = "git_staged_files" -> GitStagedFilesHandler(args, env)
      [] name = "git_unstaged_files" -> GitUnstagedFilesHandler(args, env)
      [] name = "git_untracked_files" -> GitUntrackedFilesHandler(args, env)
      [] name = "git_show_file_diff" -> GitShowFileDiffHandler(args, env)

(***************************************************************************)
(* Tool arguments, as the model sends them: each argument is a typed value *)
(* or is missing.                                                          *)
(***************************************************************************)
StrArg(chars) == [t |-> "string", v |-> chars, k |-> 0]

NumArg(k) == [t |-> "number", v |-> <<>>, k |-> k]

Missing == [t |-> "undefined", v |-> <<>>, k |-> 0]

Args(filePath, dirPath, count) ==
    [filePath |-> filePath, dirPath |-> dirPath, count |-> count]

\* a faulty variant: every input is let through to the handler
SchemaAcceptsAll(name, args) == TRUE

\* schema: z.object({...}) of each tool: does the input parse
SchemaOk(name, args) ==
    CASE name = "read_file" -> args.filePath.t = "string"
      [] name = "list_dir" -> args.dirPath.t = "string"
      [] name = "git_commit_history" -> args.count.t \in {"number", "undefined"}
      [] name = "git_show_file_diff" -> args.filePath.t = "string"
      [] OTHER -> TRUE

\* what the schema hands to the handler: z.number().default(5) fills a missing count
Parsed(name, args) ==
    IF name = "git_commit_history" /\ args.count.t = "undefined"
    THEN [args EXCEPT !.count = NumArg(5)]
    ELSE args

(***************************************************************************)
(* Messages and the tools node. new ToolNode(tools) is the prebuilt node   *)
(* of @langchain/langgraph: it maps the tool calls of the last message     *)
(* with Promise.all, validates each input against the tool's schema before *)
(* the handler runs, and turns every error of a call into an error         *)
(* ToolMessage.                                                            *)
(***************************************************************************)
Message(role, content, tool_calls, has_tool_calls, raw, result, tool_call_id, status) ==
    [role |-> role, content |-> content, tool_calls |-> tool_calls,
     has_tool_calls |-> has_tool_calls, raw |-> raw, result |-> result,
     tool_call_id |-> tool_call_id, status |-> status]

SystemMessage(content) == Message("system", content, <<>>, FALSE, "absent", NoText, 0, "")

HumanMessage(content) == Message("human", content, <<>>, FALSE, "absent", NoText, 0, "")

ToolMessage(result, id, status) == Message("tool", <<>>, <<>>, FALSE, "absent", result, id, status)

\* the id the provider gives the i-th tool call of the turn-th response
CallId(turn, i) == 10 * turn + i

\* the Assistant message model.invoke resolves with, for response r of a turn
AIMessage(r, turn) ==
    Message("ai", r.content,
            [i \in 1..Len(r.tool_calls) |->
                [name |-> r.tool_calls[i].name, args |-> r.tool_calls[i].args,
                 id |-> CallId(turn, i)]],
            r.has_tool_calls, r.raw, NoText, 0, "")

\* one call of the tools node: what ToolNode appends for it, what the run did
\* (trace), whether the handler ran and whether the handler threw
RunTool(call, env) ==
    IF call.name \notin ToolNames
    THEN [msg |-> ToolMessage(Text("Error: tool not found", <<>>, 0, 0, <<>>), call.id, "error"),
          trace |-> <<>>, ran |-> FALSE, threw |-> FALSE]
    ELSE IF ~SchemaOk(call.name, call.args)
    THEN [msg |-> ToolMessage(Text("Error: input did not match schema", <<>>, 0, 0, <<>>),
                              call.id, "error"),
          trace |-> <<>>, ran |-> FALSE, threw |-> FALSE]
    ELSE LET r == Handler(call.name, Parsed(call.name, call.args), env)
         IN  IF r.outcome = "throw"
             THEN [msg |-> ToolMessage(Text("Error: handler threw", r.value.path, 0, 0, <<>>),
                                       call.id, "error"),
                   trace |-> r.trace, ran |-> TRUE, threw |-> TRUE]
             ELSE [msg |-> ToolMessage(r.value, call.id, "success"),
                   trace |-> r.trace, ran |-> TRUE, threw |-> FALSE]

\* message.tool_calls?.map(...) ?? []: the calls the tools node works on
ToolCallsOf(m) == IF m.has_tool_calls THEN m.tool_calls ELSE <<>>

\* a tool call of the current TOOLS turn that has not been started
PendingCall(call) ==
    [call |-> call, phase |-> "pending", msg |-> ToolMessage(NoText, call.id, ""),
     trace |-> <<>>, ran |-> FALSE, threw |-> FALSE]

\* a faulty variant: the outputs in reverse order
ToolNodeOutputsReversed(cs) == [i \in 1..Len(cs) |-> cs[Len(cs) + 1 - i].msg]

\* await Promise.all(...): the outputs in the order of the calls
ToolNodeOutputs(cs) == [i \in 1..Len(cs) |-> cs[i].msg]

\* does this call have its handler running (started, not returned)
HandlerInFlight(c) ==
    /\ c.phase = "running"
    /\ c.call.name \in ToolNames
    /\ SchemaOk(c.call.name, c.call.args)

(***************************************************************************)
(* The graph of getApp.                                                    *)
(***************************************************************************)
\* shouldContinue: additional_kwargs.tool_calls is truthy when it is present,
\* also as an empty list; tool_calls?.length > 0 is false for an absent list
ShouldContinue(ms) ==
    LET lastMessage == ms[Len(ms)]
    IN  IF \/ lastMessage.raw # "absent"
           \/ (lastMessage.has_tool_calls /\ Len(lastMessage.tool_calls) > 0)
        THEN "tools" ELSE "__end__"

\* graph.invoke({ messages }) passes no recursionLimit: the default of the
\* graph runtime, 25 supersteps, applies
RecursionLimit == 25

\* a faulty variant: the graph run is never out of steps
NeverOutOfSteps(stepsDone) == FALSE

\* the graph run has used up its supersteps: the next node does not run and
\* graph.invoke rejects with a GraphRecursionError
OutOfSteps(stepsDone) == stepsDone >= RecursionLimit

\* a faulty variant: the tools node returns as soon as one call has settled
AnySettled(cs) == \E i \in 1..Len(cs) : cs[i].phase = "done"

\* await Promise.all(...): every call has settled
AllSettled(cs) == \A i \in 1..Len(cs) : cs[i].phase = "done"

\* a faulty variant: a failed model call is swallowed and the agent node runs again
RetryOnModelError(e) == [node |-> "agent", thrown |-> NoValue]

\* a rejection of model.invoke is caught nowhere: the agent node, graph.invoke
\* and generateCommitMessage reject with it
OnModelError(e) == [node |-> "failed", thrown |-> e]

\* a faulty variant: the new messages replace the last message
ReplaceLast(ms, new) == SubSeq(ms, 1, Len(ms) - 1) \o new

\* the reducer of MessagesAnnotation for messages with fresh ids: append
AddMessages(ms, new) == ms \o new

(***************************************************************************)
(* The inputs: what the model answers and what the file system and git do. *)
(***************************************************************************)
Req(name, args) == [name |-> name, args |-> args]

NoArgs == Args(Missing, Missing, Missing)

PathFile == <<"a", ".", "t", "s">>

PathParent == <<".", ".", "/", "x">>

PathDir == <<"s", "r", "c">>

PathInner == <<"a", "/", ".", ".">>

PathOption == OutputOption \o <<"x">>

PathAbsolute == <<"/", "e", "t", "c", "/", "p", "a", "s", "s", "w", "d">>

\* the tool calls a response may hold alone
SingleReqs ==
    { Req("read_file", Args(StrArg(PathFile), Missing, Missing)),
      Req("read_file", Args(StrArg(PathParent), Missing, Missing)),
      Req("read_file", Args(StrArg(PathInner), Missing, Missing)),
      Req("read_file", Args(StrArg(PathAbsolute), Missing, Missing)),
      Req("read_file", Args(NumArg(42), Missing, Missing)),
      Req("list_dir", Args(Missing, StrArg(PathDir), Missing)),
      Req("list_dir", Args(Missing, StrArg(PathParent), Missing)),
      Req("list_dir", Args(Missing, StrArg(PathAbsolute), Missing)),
      Req("list_dir", NoArgs),
      Req("git_commit_history", NoArgs),
      Req("git_commit_history", Args(Missing, Missing, NumArg(3))),
      Req("git_commit_history", Args(Missing, Missing, NumArg(100))),
      Req("git_commit_history", Args(Missing, Missing, NumArg(0))),
      Req("git_commit_history", Args(Missing, Missing, NumArg(-1))),
      Req("git_commit_history", Args(Missing, Missing, StrArg(<<"5">>))),
      Req("git_staged_files", NoArgs),
      Req("git_unstaged_files", NoArgs),
      Req("git_untracked_files", NoArgs),
      Req("git_show_file_diff", Args(StrArg(PathFile), Missing, Missing)),
      Req("git_show_file_diff", Args(StrArg(PathOption), Missing, Missing)),
      Req("git_show_file_diff", NoArgs),
      Req("no_such_tool", NoArgs) }

\* the tool calls a response with several calls is made of
MultiReqs ==
    { Req("read_file", Args(StrArg(PathFile), Missing, Missing)),
      Req("read_file", Args(NumArg(42), Missing, Missing)),
      Req("git_staged_files", NoArgs) }

CallSeqs ==
    {<<r>> : r \in SingleReqs} \cup UNION {[1..n -> MultiReqs] : n \in 2..MaxCalls}

ContentPlain == <<"f","e","a","t",":"," ","x">>

ContentPreamble == <<"H","e","r","e"," ","i","s",":",NL,"f","i","x",":"," ","y">>

Response(content, tool_calls, has_tool_calls, raw) ==
    [content |-> content, tool_calls |-> tool_calls,
     has_tool_calls |-> has_tool_calls, raw |-> raw]

\* the tool call of the later turns
PlainReq == Req("git_staged_files", NoArgs)

FinalResponse == Response(ContentPlain, <<>>, TRUE, "absent")

PlainResponse == Response(<<>>, <<PlainReq>>, TRUE, "absent")

RichResponses ==
    { FinalResponse,
      Response(ContentPreamble, <<>>, FALSE, "absent"),
      Response(ContentPlain, <<>>, TRUE, "empty"),
      Response(ContentPreamble, <<>>, FALSE, "empty"),
      Response(<<>>, <<PlainReq>>, TRUE, "some") }
    \cup {Response(<<>>, cs, TRUE, "absent") : cs \in CallSeqs}

\* the result of PlainReq when git prints two lines
PlainResult == Text("stdout", <<>>, 2, 0, <<>>)

\* a transcript in which every turn so far asked for PlainReq and got PlainResult
PlainSoFar(ms) ==
    \A i \in 3..Len(ms) :
        \/ /\ ms[i].role = "ai"
           /\ ms[i].raw = "absent"
           /\ Len(ms[i].tool_calls) = 1
           /\ Req(ms[i].tool_calls[1].name, ms[i].tool_calls[1].args) = PlainReq
        \/ /\ ms[i].role = "tool"
           /\ ms[i].result = PlainResult

\* the responses model.invoke(ms) may resolve with in its turn-th call
ModelResponses(ms, turn) ==
    IF turn <= MaxRichTurns THEN RichResponses
    ELSE IF PlainSoFar(ms) THEN {FinalResponse, PlainResponse}
    ELSE {FinalResponse}

\* the errors model.invoke may reject with
ModelErrors == {"401 authentication_error", "429 rate_limit"}

Env(stat, size, read, length, readdir, entries, exec, out, history) ==
    [stat |-> stat, size |-> size, read |-> read, length |-> length, readdir |-> readdir,
     entries |-> entries, exec |-> exec, out |-> out, history |-> history]

PlainEnv == Env("file", 50000, "ok", 10000, "ok", <<>>, "ok", 2, 7)

EntryNames == << <<"a">>, <<"b">> >>

\* what the file system and git answer to the accesses of one run of a tool
Envs(name) ==
    CASE name = "read_file" ->
            {[PlainEnv EXCEPT !.stat = "fail"], [PlainEnv EXCEPT !.size = 50001],
             [PlainEnv EXCEPT !.read = "fail"], PlainEnv, [PlainEnv EXCEPT !.length = 10001]}
      [] name = "list_dir" ->
            {[PlainEnv EXCEPT !.readdir = "fail"], PlainEnv}
            \cup {[PlainEnv EXCEPT !.entries =
                      [i \in 1..2 |-> [name |-> EntryNames[i], stat |-> st[i]]]] :
                    st \in {<<"dir", "fail">>, <<"file", "dir">>, <<"fail", "file">>}}
      [] name = "git_commit_history" ->
            {[PlainEnv EXCEPT !.exec = x, !.history = h] :
                x \in {"throw", "fail", "ok"}, h \in {0, 7}}
      [] OTHER ->
            {[PlainEnv EXCEPT !.exec = x, !.out = o] :
                x \in {"throw", "fail", "ok"}, o \in {0, 2}}

\* the environments of a run in the turn-th TOOLS turn, which holds n calls
TurnEnvs(name, turn, n) ==
    IF turn > MaxRichTurns THEN {PlainEnv}
    ELSE IF n > 1 THEN {PlainEnv, [PlainEnv EXCEPT !.stat = "fail"]}
    ELSE Envs(name)

(***************************************************************************)
(* git.ts: getStagedDiffSmart. A text git prints is kept by its length, the *)
(* name-status list as the text itself: its entries, one per line.         *)
(***************************************************************************)
TAB == "TAB"

\* the stdout of git diff --cached --name-status: one line per entry, the
\* status and the path(s) separated by tabs; execa strips the final newline
NameStatus(entries) == Join(entries)

\* the stdout of the four git queries: the name-status text, the length of
\* the stat summary, of the 1-line-context diff and of the 0-line-context
\* diff, and the queries whose git process failed; a failing git has an
\* empty stdout
Staged(fileList, stats, diff, compactDiff, failed) ==
    [fileList |-> fileList, stats |-> stats, diff |-> diff, compactDiff |-> compactDiff,
     failed |-> failed]

NoStaged == Staged(<<>>, 0, 0, 0, {})

\* a faulty variant: execa without { reject: false } rejects when git fails
RejectsWhenFailed(g, query) == query \in g.failed

\* execa(..., { reject: false }): the promise resolves also when git fails
Rejects(g, query) == FALSE

\* if (estimatedTokens > 2000)
TokenLimit == 2000

\* a faulty variant: an estimate of exactly 2000 counts as large
LargeDiffFromLimit(length) == length >= 4 * TokenLimit

\* a faulty variant: the estimate is rounded down before it is compared
LargeDiffRounded(length) == length \div 4 > TokenLimit

\* const estimatedTokens = diff.length / 4; if (estimatedTokens > 2000):
\* the division is exact (a JavaScript number), so the test is length > 8000
LargeDiff(length) == length > 4 * TokenLimit

\* a faulty variant: the separators are counted, not the lines
FileCountOfSeparators(fileList) == Len(Split(fileList)) - 1

\* fileList.split('\n').length
FileCount(fileList) == Len(Split(fileList))

\* "Note: This is a large changeset. The diff shows only changed lines
\* without context."
LargeChangesetNote == "Note: This is a large changeset."

\* the text getStagedDiffSmart returns: which template, the file count of its
\* header, the file list, the lengths of the stats and of the diff it embeds,
\* and the note that ends it
Bundle(contextLevel, fileCount, fileList, stats, diff, note) ==
    [contextLevel |-> contextLevel, fileCount |-> fileCount, fileList |-> fileList,
     stats |-> stats, diff |-> diff, note |-> note]

\* return ''
EmptyBundle == Bundle("none", NoValue, <<>>, 0, 0, NoValue)

\* the promise of getStagedDiffSmart rejects
RejectedBundle == Bundle("rejected", NoValue, <<>>, 0, 0, NoValue)

\* getStagedDiffSmart
GetStagedDiffSmart(g) ==
    IF Rejects(g, "fileList") THEN RejectedBundle
    ELSE IF g.fileList = <<>> THEN EmptyBundle
    ELSE IF Rejects(g, "stats") \/ Rejects(g, "diff") THEN RejectedBundle
    ELSE IF LargeDiff(g.diff)
         THEN IF Rejects(g, "compactDiff") THEN RejectedBundle
              ELSE Bundle("Narrow", FileCount(g.fileList), g.fileList, g.stats,
                          g.compactDiff, LargeChangesetNote)
         ELSE Bundle("Wide", NoValue, g.fileList, g.stats, g.diff, NoValue)

(***************************************************************************)
(* index.ts: the data of main. The file holds two programs, each with its  *)
(* own main: the first (lines 1-336) reads the staged diff with            *)
(* getStagedDiff, the second (from line 338) with getStagedDiffSmart.      *)
(***************************************************************************)
\* null or undefined where an object is expected
Null == [null |-> TRUE]

\* type AIProvider = 'anthropic' | 'google'
Providers == {"anthropic", "google"}

\* the model the prompts of setupProviderAndModel preselect (initialValue);
\* the user keeps it
DefaultModel(provider) ==
    IF provider = "anthropic" THEN "claude-sonnet-4-20250514" ELSE "gemini-3-flash-preview"

\* the keys a user may hold for a provider
KeysOf(provider) ==
    IF provider = "anthropic" THEN {"sk-ant-1", "sk-ant-2"} ELSE {"AIza-1"}

\* the keys the provider refuses with 401 authentication_error
RejectedKeys == {"sk-ant-1"}

\* interface AppConfig; an absent field is NoValue (preferences: Null)
Config(provider, model, anthropicKey, googleKey, prefs) ==
    [provider |-> provider, model |-> model, ANTHROPIC_API_KEY |-> anthropicKey,
     GOOGLE_API_KEY |-> googleKey, preferences |-> prefs]

\* config.provider === 'anthropic' ? 'ANTHROPIC_API_KEY' : 'GOOGLE_API_KEY'
KeyField(config, provider) ==
    IF provider = "anthropic" THEN config.ANTHROPIC_API_KEY ELSE config.GOOGLE_API_KEY

\* config[keyField] = apiKey
WithKey(config, provider, key) ==
    IF provider = "anthropic" THEN [config EXCEPT !.ANTHROPIC_API_KEY = key]
    ELSE [config EXCEPT !.GOOGLE_API_KEY = key]

\* process.env without either key
NoEnv == [p \in Providers |-> NoValue]

\* the result of getStagedStats
Stats(files, insertions, deletions) ==
    [files |-> files, insertions |-> insertions, deletions |-> deletions]

\* the local variables of main
Locals(config, apiKey, prefs, diff, stats, commitMessage, userFeedback) ==
    [config |-> config, apiKey |-> apiKey, preferences |-> prefs, diff |-> diff,
     stats |-> stats, commitMessage |-> commitMessage, userFeedback |-> userFeedback]

NoLocals == Locals(Null, NoValue, Null, EmptyBundle, Stats(0, 0, 0), <<>>, Missing)

\* one thing the terminal showed or asked, with the message it was about
UI(ev, v) == [ev |-> ev, v |-> v]

\* main is not running
MainIdle ==
    /\ initial = Null
    /\ mainPc = "idle"
    /\ processEnv = NoEnv
    /\ stored = Null
    /\ app = NoValue
    /\ index = 0
    /\ worktree = 0
    /\ main = NoLocals
    /\ attempts = <<>>
    /\ ui = <<>>

\* one run of listDirTool between readdir and return: the entries readdir
\* returned with what stat answers for each, the indices of the promises
\* settled so far in the order they settled, the array Promise.all fills and
\* the lines joined at the end
Listing(pc, entries, settled, results, lines) ==
    [pc |-> pc, entries |-> entries, settled |-> settled, results |-> results,
     lines |-> lines]

\* one run of getRecentCommits: the commits of the history, the stdout of git
\* log and the array returned
Recent(pc, commits, stdout, entries) ==
    [pc |-> pc, commits |-> commits, stdout |-> stdout, entries |-> entries]

\* no run of listDirTool or getRecentCommits stands alone
AuxIdle ==
    /\ listing = Listing("idle", <<>>, <<>>, <<>>, <<>>)
    /\ recent = Recent("idle", <<>>, <<>>, <<>>)

(***************************************************************************)
(* generateCommitMessage: one session.                                     *)
(***************************************************************************)
SystemPrompt(prefs) ==
    <<"system prompt",
      IF prefs.useConventionalCommits THEN "conventional" ELSE "natural",
      prefs.commitMessageStyle>>

UserPrompt == <<"Generate a commit message for this diff:", "diff">>

PreferenceSets ==
    { [useConventionalCommits |-> TRUE, commitMessageStyle |-> "concise"],
      [useConventionalCommits |-> FALSE, commitMessageStyle |-> "descriptive"] }

Init ==
    /\ preferences \in PreferenceSets
    /\ node = "agent"
    /\ messages = <<SystemMessage(SystemPrompt(preferences)), HumanMessage(UserPrompt)>>
    /\ step = 0
    /\ modelCalls = 0
    /\ toolTurns = 0
    /\ calls = <<>>
    /\ modelError = NoValue
    /\ thrown = NoValue
    /\ returned = NoValue
    /\ sanIn = <<>>
    /\ sanPref = FALSE
    /\ sanOut1 = <<>>
    /\ sanOut2 = <<>>
    /\ sanPc = "idle"
    /\ sanSteps = <<>>
    /\ staged = NoStaged
    /\ diffPc = "idle"
    /\ bundle = NoValue
    /\ MainIdle
    /\ AuxIdle

\* the agent node: model.invoke(messages) resolves, the response is appended and
\* the conditional edge shouldContinue picks the next node
AgentReturns ==
    /\ node = "agent"
    /\ \E r \in ModelResponses(messages, modelCalls + 1) :
          LET ms == AddMessages(messages, <<AIMessage(r, modelCalls + 1)>>)
              next == ShouldContinue(ms)
          IN  /\ messages' = ms
              /\ IF next = "__end__"
                 THEN node' = "end" /\ calls' = <<>> /\ thrown' = thrown
                 ELSE IF OutOfSteps(step + 1)
                 THEN node' = "failed" /\ calls' = <<>> /\ thrown' = "GraphRecursionError"
                 ELSE /\ node' = "tools"
                      /\ calls' = [i \in 1..Len(ToolCallsOf(ms[Len(ms)])) |->
                                      PendingCall(ToolCallsOf(ms[Len(ms)])[i])]
                      /\ thrown' = thrown
    /\ modelCalls' = modelCalls + 1
    /\ step' = step + 1
    /\ UNCHANGED <<toolTurns, modelError, returned, preferences, sanVars, diffVars, mainVars, auxVars>>

\* the agent node: model.invoke(messages) rejects
AgentFails ==
    /\ node = "agent"
    /\ \E e \in ModelErrors :
          /\ modelError' = e
          /\ node' = OnModelError(e).node
          /\ thrown' = OnModelError(e).thrown
    /\ modelCalls' = modelCalls + 1
    /\ UNCHANGED <<messages, step, toolTurns, calls, returned, preferences, sanVars, diffVars, mainVars, auxVars>>

\* the tools node starts call i: Promise.all(tool_calls.map(...)) starts the
\* calls in request order and waits for none of them
StartTool(i) ==
    /\ node = "tools"
    /\ i \in 1..Len(calls)
    /\ calls[i].phase = "pending"
    /\ \A j \in 1..(i - 1) : calls[j].phase # "pending"
    /\ calls' = [calls EXCEPT ![i].phase = "running"]
    /\ UNCHANGED <<node, messages, step, modelCalls, toolTurns, modelError, thrown, returned,
                   preferences, sanVars, diffVars, mainVars, auxVars>>

\* call i of the tools node settles
FinishTool(i) ==
    /\ node = "tools"
    /\ i \in 1..Len(calls)
    /\ calls[i].phase = "running"
    /\ \E env \in TurnEnvs(calls[i].call.name, toolTurns + 1, Len(calls)) :
          LET r == RunTool(calls[i].call, env)
          IN  calls' = [calls EXCEPT ![i] =
                          [call |-> calls[i].call, phase |-> "done", msg |-> r.msg,
                           trace |-> r.trace, ran |-> r.ran, threw |-> r.threw]]
    /\ UNCHANGED <<node, messages, step, modelCalls, toolTurns, modelError, thrown, returned,
                   preferences, sanVars, diffVars, mainVars, auxVars>>

\* the tools node returns its outputs, which are appended, and the edge
\* tools -> agent is taken
ToolsDone ==
    /\ node = "tools"
    /\ AllSettled(calls)
    /\ messages' = AddMessages(messages, ToolNodeOutputs(calls))
    /\ calls' = <<>>
    /\ toolTurns' = toolTurns + 1
    /\ step' = step + 1
    /\ IF OutOfSteps(step + 1)
       THEN node' = "failed" /\ thrown' = "GraphRecursionError"
       ELSE node' = "agent" /\ thrown' = thrown
    /\ UNCHANGED <<modelCalls, modelError, returned, preferences, sanVars, diffVars, mainVars, auxVars>>

\* generateCommitMessage after graph.invoke resolved: the content of the last
\* message is post-processed and returned
ReturnMessage ==
    /\ node = "end"
    /\ returned' = Sanitize(messages[Len(messages)].content,
                            preferences.useConventionalCommits)
    /\ node' = "done"
    /\ UNCHANGED <<messages, step, modelCalls, toolTurns, calls, modelError, thrown,
                   preferences, sanVars, diffVars, mainVars, auxVars>>

Next ==
    \/ AgentReturns
    \/ AgentFails
    \/ \E i \in 1..MaxCalls : StartTool(i)
    \/ \E i \in 1..MaxCalls : FinishTool(i)
    \/ ToolsDone
    \/ ReturnMessage

Spec == Init /\ [][Next]_vars

(***************************************************************************)
(* Sanitizer runs: the inputs are texts of up to MaxLines lines, each line *)
(* one of SanLines, joined by line breaks.                                 *)
(***************************************************************************)
SanLines ==
    { <<"x">>,
      <<"f","e","a","t",":"," ","x">>,
      <<" ","F","i","x",":","y">>,
      <<"H","e","r","e"," ","i","s",":">>,
      <<BQ, BQ, BQ>>,
      <<"H","e","r","e"," ","i","s">>,
      <<>> }

SanInputs ==
    UNION {{Join(ls) : ls \in [1..n -> SanLines]} : n \in 1..MaxLines}

SanInit ==
    /\ node = "idle"
    /\ messages = <<>>
    /\ step = 0
    /\ modelCalls = 0
    /\ toolTurns = 0
    /\ calls = <<>>
    /\ modelError = NoValue
    /\ thrown = NoValue
    /\ returned = NoValue
    /\ preferences = [useConventionalCommits |-> TRUE, commitMessageStyle |-> "concise"]
    /\ sanIn \in SanInputs
    /\ sanPref \in BOOLEAN
    /\ sanOut1 = <<>>
    /\ sanOut2 = <<>>
    /\ sanPc = "in"
    /\ sanSteps = <<>>
    /\ staged = NoStaged
    /\ diffPc = "idle"
    /\ bundle = NoValue
    /\ MainIdle
    /\ AuxIdle

\* the sanitizer applied to the terminal content
SanitizeOnce ==
    /\ sanPc = "in"
    /\ sanOut1' = Sanitize(sanIn, sanPref)
    /\ sanSteps' = SanitizeSteps(sanIn, sanPref)
    /\ sanPc' = "once"
    /\ UNCHANGED <<sanIn, sanPref, sanOut2>>
    /\ UNCHANGED <<graphVars, diffVars, mainVars, auxVars>>

\* the sanitizer applied to its own output
SanitizeTwice ==
    /\ sanPc = "once"
    /\ sanOut2' = Sanitize(sanOut1, sanPref)
    /\ sanPc' = "twice"
    /\ UNCHANGED <<sanIn, sanPref, sanOut1, sanSteps>>
    /\ UNCHANGED <<graphVars, diffVars, mainVars, auxVars>>

SanNext == SanitizeOnce \/ SanitizeTwice

SanSpec == SanInit /\ [][SanNext]_vars

(***************************************************************************)
(* Runs of getStagedDiffSmart on what git answers.                         *)
(***************************************************************************)
FileNames ==
    << <<"M", TAB, "a.ts">>,
       <<"R100", TAB, "b.ts", TAB, "c.ts">>,
       <<"D", TAB, "d.ts">>,
       <<"A", TAB, "e.ts">>,
       <<"M", TAB, "f.ts">> >>

\* the lengths of the 1-line-context diff: around the point where the
\* estimate is 2000
DiffLengths == {0, 7996, 7999, 8000, 8001, 8002, 8003, 8004}

\* the queries that failed: one that printed nothing may have failed
FailedSets(n, st, d, c) ==
    SUBSET ( (IF n = 0 THEN {"fileList"} ELSE {})
             \cup (IF st = 0 THEN {"stats"} ELSE {})
             \cup (IF d = 0 THEN {"diff"} ELSE {})
             \cup (IF c = 0 THEN {"compactDiff"} ELSE {}) )

StagedStates ==
    UNION { {Staged(NameStatus(SubSeq(FileNames, 1, n)), st, d, c, f) :
                f \in FailedSets(n, st, d, c)} :
            n \in 0..MaxFiles, st \in {0, 40}, d \in DiffLengths, c \in {0, 5000}}

DiffInit ==
    /\ node = "idle"
    /\ messages = <<>>
    /\ step = 0
    /\ modelCalls = 0
    /\ toolTurns = 0
    /\ calls = <<>>
    /\ modelError = NoValue
    /\ thrown = NoValue
    /\ returned = NoValue
    /\ preferences = [useConventionalCommits |-> TRUE, commitMessageStyle |-> "concise"]
    /\ sanIn = <<>>
    /\ sanPref = FALSE
    /\ sanOut1 = <<>>
    /\ sanOut2 = <<>>
    /\ sanPc = "idle"
    /\ sanSteps = <<>>
    /\ staged \in StagedStates
    /\ diffPc = "in"
    /\ bundle = NoValue
    /\ MainIdle
    /\ AuxIdle

\* one call of getStagedDiffSmart
StagedDiffSmart ==
    /\ diffPc = "in"
    /\ bundle' = GetStagedDiffSmart(staged)
    /\ diffPc' = "out"
    /\ UNCHANGED <<staged, graphVars, sanVars, mainVars, auxVars>>

DiffNext == StagedDiffSmart

DiffSpec == DiffInit /\ [][DiffNext]_vars

(***************************************************************************)
(* Runs of main (index.ts). One call of generateCommitMessage is one step: *)
(* what the graph does inside it is the subject of Spec.                   *)
(***************************************************************************)
\* everything outside main
outside == <<initial, graphVars, sanVars, diffVars, auxVars>>

\* what git answers to the queries of getStagedDiffSmart with n files staged
\* (a short diff for one file, a long one for more); the name-status query
\* may fail
GitAnswers(n) ==
    {Staged(<<>>, 0, 0, 0, {"fileList"})}
    \cup (IF n = 0 THEN {NoStaged}
          ELSE {Staged(NameStatus(SubSeq(FileNames, 1, n)), 40,
                       IF n = 1 THEN 100 ELSE 9000, 5000, {})})

\* the length of the stdout of `git diff --cached` with n files staged; 0 when
\* nothing is staged or git fails
FullDiffs(n) == {0} \cup (IF n = 0 THEN {} ELSE {300})

\* getStagedDiff: return stdout, the unified diff with git's full context
GetStagedDiff(length) ==
    IF length = 0 THEN EmptyBundle
    ELSE Bundle("Full", NoValue, <<>>, 0, length, NoValue)

\* if (!diff)
IsEmpty(diff) == diff.contextLevel = "none"

\* what getStagedStats answers with n files staged: small, middle-sized or
\* large changes in each file
StatsAnswers(n) ==
    IF n = 0 THEN {Stats(0, 0, 0)}
    ELSE {Stats(n, 10 * n, 2 * n), Stats(n, 300 * n, 0), Stats(n, 600 * n, 0)}

\* if (stats.files >= 10 || totalChanges >= 500)
LargeChangeset(stats) == stats.files >= 10 \/ stats.insertions + stats.deletions >= 500

\* getApp: if (app) return app; otherwise the model is built for a provider
\* and a model name with apiKey: process.env.ANTHROPIC_API_KEY, and the
\* compiled graph is kept in app
GetApp(cached, provider, model, key) ==
    IF cached # Null THEN cached
    ELSE [provider |-> provider, model |-> model, apiKey |-> key]

\* the content of the HumanMessage of generateCommitMessage
UserText(diff, userFeedback) ==
    <<"Generate a commit message for this diff:", diff>>
    \o (IF userFeedback.t = "string" /\ userFeedback.v # <<>>
        THEN <<"User feedback on previous attempt:", userFeedback.v,
               "Please adjust the commit message based on this feedback.">>
        ELSE <<>>)

\* a faulty variant of InitialMessages: the transcript of the attempt before
\* is kept in front of the new messages
MessagesAfterPrevious(previous, diff, prefs, userFeedback) ==
    previous \o <<SystemMessage(SystemPrompt(prefs)), HumanMessage(UserText(diff, userFeedback))>>

\* const messages = [new SystemMessage(...), new HumanMessage(...)];
\* graph.invoke({ messages }): the graph is compiled without a checkpointer,
\* so the run starts from these messages alone
InitialMessages(previous, diff, prefs, userFeedback) ==
    <<SystemMessage(SystemPrompt(prefs)), HumanMessage(UserText(diff, userFeedback))>>

\* how a call of generateCommitMessage ended
Outcome(kind, v) == [kind |-> kind, v |-> v]

\* the error of a provider that refuses the key, and another error; a
\* message is a sequence of pieces
AuthError ==
    Outcome("error", <<"401", " ", "authentication_error", ": ", "invalid x-api-key">>)

OtherError == Outcome("error", <<"429", " ", "rate_limit_error">>)

\* the pieces the catch block looks for in error.message: four in the first
\* main, five in the second
AuthPatterns ==
    {<<"401">>, <<"authentication_error">>, <<"invalid x-api-key">>, <<"invalid api key">>}
    \cup (IF initial.program = "first" THEN {} ELSE {<<"API key not valid">>})

\* a faulty variant of IsAuthError: every error is taken for an authentication
\* error
IsAnyError(outcome) == outcome.kind = "error"

\* error.message?.includes('401') || ...includes('authentication_error') || ...
IsAuthError(outcome) ==
    /\ outcome.kind = "error"
    /\ \E pattern \in AuthPatterns : Includes(outcome.v, pattern)

\* the messages generateCommitMessage may return: one line, several lines
Replies ==
    { Outcome("message", ContentPlain),
      Outcome("message", ContentPlain \o <<NL, NL, "b">>) }

\* what the user may type in the edit prompt
Edits == { <<"f", "i", "x", ":", " ", "z">> }

\* what the user may type in the feedback prompt
Feedbacks == { <<>>, <<" ", " ">>, <<"s", "h", "o", "r", "t">> }

\* one call generateCommitMessage(diff, preferences, userFeedback): its
\* arguments, the messages the graph starts from, the transcript when it
\* ended, the graph getApp returned with the key its model holds, the config
\* of main and the key in process.env at the call, the outcome and the
\* position of its 'Generating' spinner in ui
Attempt(diff, prefs, userFeedback, start, final, graph, config, envKey, outcome, at) ==
    [diff |-> diff, preferences |-> prefs, userFeedback |-> userFeedback,
     messages |-> start, final |-> final, graph |-> graph, apiKey |-> graph.apiKey,
     config |-> config, envKey |-> envKey, outcome |-> outcome, at |-> at]

\* the transcript of the attempt before this one
PreviousTranscript == IF attempts = <<>> THEN <<>> ELSE attempts[Len(attempts)].final

\* the provider and the model name the model is built for: ChatAnthropic and
\* 'claude-sonnet-4-5-20250929' in the first program, those of the config in
\* the second
ModelProvider == IF initial.program = "first" THEN "anthropic" ELSE main.config.provider

ModelName ==
    IF initial.program = "first" THEN "claude-sonnet-4-5-20250929" ELSE main.config.model

\* the environment variable the model is built from
ModelKey == processEnv[ModelProvider]

\* the config file at start
StoredStates(program) ==
    IF program = "first"
    THEN { Null,
           Config(NoValue, NoValue, "sk-ant-1", NoValue, Null),
           Config(NoValue, NoValue, "sk-ant-1", NoValue,
                  [useConventionalCommits |-> TRUE, commitMessageStyle |-> "concise"]) }
    ELSE { Null,
           Config(NoValue, NoValue, "sk-ant-1", NoValue, Null) }
         \cup { Config("anthropic", DefaultModel("anthropic"), k, NoValue,
                       [useConventionalCommits |-> FALSE, commitMessageStyle |-> "descriptive"]) :
                    k \in {NoValue, "sk-ant-1"} }

\* process.env at start
EnvStates == { [anthropic |-> a, google |-> NoValue] : a \in {NoValue, "sk-ant-2"} }

\* no session of the graph, no sanitizer run and no diff run stands alone
OutsideIdle ==
    /\ node = "idle"
    /\ messages = <<>>
    /\ step = 0
    /\ modelCalls = 0
    /\ toolTurns = 0
    /\ calls = <<>>
    /\ modelError = NoValue
    /\ thrown = NoValue
    /\ returned = NoValue
    /\ preferences = [useConventionalCommits |-> TRUE, commitMessageStyle |-> "concise"]
    /\ sanIn = <<>>
    /\ sanPref = FALSE
    /\ sanOut1 = <<>>
    /\ sanOut2 = <<>>
    /\ sanPc = "idle"
    /\ sanSteps = <<>>
    /\ staged = NoStaged
    /\ diffPc = "idle"
    /\ bundle = NoValue

MainInit ==
    /\ OutsideIdle
    /\ AuxIdle
    /\ \E program \in {"first", "second"} :
          /\ processEnv \in EnvStates
          /\ stored \in StoredStates(program)
          /\ initial = [program |-> program, from |-> "start", env |-> processEnv,
                        stored |-> stored]
          /\ mainPc = IF program = "first" THEN "key1" ELSE "start"
    /\ app = Null
    /\ index \in 0..1
    /\ worktree \in 0..1
    /\ main = NoLocals
    /\ attempts = <<>>
    /\ ui = <<>>

\* the first main, "1. Check API Key": environment variable, then the stored
\* key, then the prompt; storeKey writes a file that holds the key alone
ResolveKey1 ==
    /\ mainPc = "key1"
    /\ LET fromEnv == processEnv["anthropic"]
           fromFile == IF stored = Null THEN NoValue ELSE stored.ANTHROPIC_API_KEY
       IN  IF fromEnv # NoValue \/ fromFile # NoValue
           THEN LET apiKey == IF fromEnv # NoValue THEN fromEnv ELSE fromFile
                IN  /\ main' = [main EXCEPT !.apiKey = apiKey]
                    /\ processEnv' = [processEnv EXCEPT !["anthropic"] = apiKey]
                    /\ mainPc' = "repo"
                    /\ UNCHANGED <<stored, ui>>
           ELSE \E key \in KeysOf("anthropic") \cup {NoValue} :
                    /\ ui' = Append(ui, UI("key prompt", IF key = NoValue THEN <<>> ELSE <<key>>))
                    /\ IF key = NoValue
                       THEN /\ mainPc' = "exit"
                            /\ UNCHANGED <<main, processEnv, stored>>
                       ELSE /\ main' = [main EXCEPT !.apiKey = key]
                            /\ stored' = Config(NoValue, NoValue, key, NoValue, Null)
                            /\ processEnv' = [processEnv EXCEPT !["anthropic"] = key]
                            /\ mainPc' = "repo"
    /\ UNCHANGED <<app, index, worktree, attempts, outside>>

\* the first main, "3. Check/Set User Preferences": getStoredPreferences, or
\* the two questions and storePreferences
Preferences1 ==
    /\ mainPc = "preferences1"
    /\ IF stored # Null /\ stored.preferences # Null
       THEN /\ main' = [main EXCEPT !.preferences = stored.preferences]
            /\ mainPc' = "diff1"
            /\ UNCHANGED stored
       ELSE \/ /\ mainPc' = "exit"
               /\ UNCHANGED <<main, stored>>
            \/ \E prefs \in PreferenceSets :
                  /\ main' = [main EXCEPT !.preferences = prefs]
                  /\ stored' = IF stored = Null
                               THEN Config(NoValue, NoValue, NoValue, NoValue, prefs)
                               ELSE [stored EXCEPT !.preferences = prefs]
                  /\ mainPc' = "diff1"
    /\ UNCHANGED <<processEnv, app, index, worktree, attempts, ui, outside>>

\* the first main, "3. Get Diff": const diff = await getStagedDiff()
GetDiff1 ==
    /\ mainPc = "diff1"
    /\ \E length \in FullDiffs(index) :
          /\ main' = [main EXCEPT !.diff = GetStagedDiff(length)]
          /\ mainPc' = IF IsEmpty(GetStagedDiff(length)) THEN "exit" ELSE "generate"
    /\ UNCHANGED <<processEnv, stored, app, index, worktree, attempts, ui, outside>>

\* the second main, "1. Check/Setup Configuration": the stored config, a
\* config with only ANTHROPIC_API_KEY upgraded and stored
LoadConfig ==
    /\ mainPc = "start"
    /\ LET legacy == /\ stored # Null
                     /\ stored.ANTHROPIC_API_KEY # NoValue
                     /\ stored.provider = NoValue
           config == IF legacy
                     THEN [stored EXCEPT !.provider = "anthropic",
                                         !.model = DefaultModel("anthropic")]
                     ELSE stored
       IN  /\ stored' = config
           /\ main' = [main EXCEPT !.config = config]
           /\ mainPc' = IF config = Null \/ config.provider = NoValue \/ config.model = NoValue
                        THEN "setup" ELSE "key"
    /\ UNCHANGED <<processEnv, app, index, worktree, attempts, ui, outside>>

\* the second main, first-time setup: setupProviderAndModel, promptForApiKey,
\* storeConfig
FirstTimeSetup ==
    /\ mainPc = "setup"
    /\ \/ /\ mainPc' = "exit"
          /\ UNCHANGED <<stored, main, ui>>
       \/ \E provider \in Providers :
          \E key \in KeysOf(provider) \cup {NoValue} :
             /\ ui' = Append(ui, UI("key prompt", IF key = NoValue THEN <<>> ELSE <<key>>))
             /\ IF key = NoValue
                THEN /\ mainPc' = "exit"
                     /\ UNCHANGED <<stored, main>>
                ELSE LET config == WithKey(Config(provider, DefaultModel(provider), NoValue,
                                                  NoValue, Null), provider, key)
                     IN  /\ stored' = config
                         /\ main' = [main EXCEPT !.config = config]
                         /\ mainPc' = "key"
    /\ UNCHANGED <<processEnv, app, index, worktree, attempts, outside>>

\* the second main, "Priority: env var > stored config > prompt", and the
\* environment variable set for the agent
ResolveKey ==
    /\ mainPc = "key"
    /\ LET provider == main.config.provider
           fromEnv == processEnv[provider]
           fromConfig == KeyField(main.config, provider)
       IN  IF fromEnv # NoValue \/ fromConfig # NoValue
           THEN LET apiKey == IF fromEnv # NoValue THEN fromEnv ELSE fromConfig
                IN  /\ main' = [main EXCEPT !.apiKey = apiKey]
                    /\ processEnv' = [processEnv EXCEPT ![provider] = apiKey]
                    /\ mainPc' = "repo"
                    /\ UNCHANGED <<stored, ui>>
           ELSE \E key \in KeysOf(provider) \cup {NoValue} :
                    /\ ui' = Append(ui, UI("key prompt", IF key = NoValue THEN <<>> ELSE <<key>>))
                    /\ IF key = NoValue
                       THEN /\ mainPc' = "exit"
                            /\ UNCHANGED <<main, processEnv, stored>>
                       ELSE LET config == WithKey(main.config, provider, key)
                            IN  /\ main' = [main EXCEPT !.apiKey = key, !.config = config]
                                /\ stored' = config
                                /\ processEnv' = [processEnv EXCEPT ![provider] = key]
                                /\ mainPc' = "repo"
    /\ UNCHANGED <<app, index, worktree, attempts, outside>>

\* "2. Check Git Repo" of both mains
CheckRepo ==
    /\ mainPc = "repo"
    /\ \E isRepo \in BOOLEAN :
          mainPc' = IF ~isRepo THEN "exit"
                    ELSE IF initial.program = "first" THEN "preferences1" ELSE "preferences"
    /\ UNCHANGED <<processEnv, stored, app, index, worktree, main, attempts, ui, outside>>

\* the second main, "3. Check/Set User Preferences"
Preferences ==
    /\ mainPc = "preferences"
    /\ IF main.config.preferences # Null
       THEN /\ main' = [main EXCEPT !.preferences = main.config.preferences]
            /\ mainPc' = "staged"
            /\ UNCHANGED stored
       ELSE \/ /\ mainPc' = "exit"
               /\ UNCHANGED <<main, stored>>
            \/ \E prefs \in PreferenceSets :
                  LET config == [main.config EXCEPT !.preferences = prefs]
                  IN  /\ main' = [main EXCEPT !.preferences = prefs, !.config = config]
                      /\ stored' = config
                      /\ mainPc' = "staged"
    /\ UNCHANGED <<processEnv, app, index, worktree, attempts, ui, outside>>

\* the second main, "3. Check for staged changes": let diff = await
\* getStagedDiffSmart()
CheckStaged ==
    /\ mainPc = "staged"
    /\ \E g \in GitAnswers(index) :
          /\ main' = [main EXCEPT !.diff = GetStagedDiffSmart(g)]
          /\ mainPc' = IF IsEmpty(GetStagedDiffSmart(g)) THEN "stage" ELSE "preview"
    /\ UNCHANGED <<processEnv, stored, app, index, worktree, attempts, ui, outside>>

\* the second main, if (!diff): the staging question, showGuidedStaging (k of
\* the unstaged files are selected and staged) and the re-check of the diff
GuidedStaging ==
    /\ mainPc = "stage"
    /\ \/ /\ mainPc' = "exit"
          /\ UNCHANGED <<index, worktree, main>>
       \/ \E k \in 1..worktree :
          \E g \in GitAnswers(index + k) :
             /\ index' = index + k
             /\ worktree' = worktree - k
             /\ main' = [main EXCEPT !.diff = GetStagedDiffSmart(g)]
             /\ mainPc' = IF IsEmpty(GetStagedDiffSmart(g)) THEN "exit" ELSE "preview"
    /\ UNCHANGED <<processEnv, stored, app, attempts, ui, outside>>

\* the second main, "4. Show preview" to "6. Check for unstaged changes":
\* getStagedStats, and the additional files staged with the diff refreshed
Preview ==
    /\ mainPc = "preview"
    /\ \E stats \in StatsAnswers(index) :
          \/ /\ main' = [main EXCEPT !.stats = stats]
             /\ UNCHANGED <<index, worktree>>
          \/ \E k \in 1..worktree :
             \E g \in GitAnswers(index + k) :
                /\ index' = index + k
                /\ worktree' = worktree - k
                /\ main' = [main EXCEPT !.stats = stats, !.diff = GetStagedDiffSmart(g)]
    /\ mainPc' = "large"
    /\ UNCHANGED <<processEnv, stored, app, attempts, ui, outside>>

\* the second main, "7. Detect large changesets": continue, cancel, or git
\* reset HEAD, showGuidedStaging and the diff refreshed
LargeChangesetWarning ==
    /\ mainPc = "large"
    /\ IF ~LargeChangeset(main.stats)
       THEN /\ mainPc' = "generate"
            /\ UNCHANGED <<index, worktree, main>>
       ELSE \/ /\ mainPc' \in {"generate", "exit"}
               /\ UNCHANGED <<index, worktree, main>>
            \/ /\ index' = 0
               /\ worktree' = worktree + index
               /\ mainPc' \in {"exit", "failed"}
               /\ UNCHANGED main
            \/ \E k \in 1..(worktree + index) :
               \E g \in GitAnswers(k) :
                  /\ index' = k
                  /\ worktree' = worktree + index - k
                  /\ main' = [main EXCEPT !.diff = GetStagedDiffSmart(g)]
                  /\ mainPc' = IF IsEmpty(GetStagedDiffSmart(g)) THEN "exit" ELSE "generate"
    /\ UNCHANGED <<processEnv, stored, app, attempts, ui, outside>>

\* the calls of generateCommitMessage a run is followed for
AttemptLimit == IF initial.from = "loop" THEN MaxLoopAttempts ELSE MaxAttempts

\* the body of while (!confirmed) up to the note with the proposed message:
\* generateCommitMessage(diff, preferences, userFeedback) with its catch block
Generate ==
    /\ mainPc = "generate"
    /\ Len(attempts) < AttemptLimit
    /\ LET graph == GetApp(app, ModelProvider, ModelName, ModelKey)
           start == InitialMessages(PreviousTranscript, main.diff, main.preferences,
                                    main.userFeedback)
           refused == graph.apiKey \in RejectedKeys \cup {NoValue, ""}
           first == initial.program = "first"
       IN  /\ app' = graph
           /\ \E outcome \in (IF refused THEN {AuthError}
                             ELSE Replies \cup {OtherError, AuthError}) :
                 /\ attempts' = Append(attempts,
                        Attempt(main.diff, main.preferences, main.userFeedback, start,
                                IF outcome.kind = "message"
                                THEN Append(start,
                                            AIMessage(Response(outcome.v, <<>>, TRUE, "absent"), 1))
                                ELSE start,
                                graph, main.config, ModelKey, outcome, Len(ui) + 1))
                 /\ IF outcome.kind = "message"
                    THEN /\ main' = [main EXCEPT !.commitMessage = outcome.v,
                                                 !.userFeedback = Missing]
                         /\ ui' = ui \o <<UI("generating", <<>>), UI("proposed", outcome.v)>>
                         /\ mainPc' = IF first THEN "review1" ELSE "review"
                    ELSE /\ ui' = Append(ui, UI("generating", <<>>))
                         /\ mainPc' = IF ~IsAuthError(outcome) THEN "returned"
                                      ELSE IF first THEN "auth1" ELSE "auth"
                         /\ UNCHANGED main
    /\ UNCHANGED <<processEnv, stored, index, worktree, outside>>

\* the first main, the catch block after an authentication error: the
\* question, the new key, process.env and storeKey, then continue
NewKey1 ==
    /\ mainPc = "auth1"
    /\ \/ /\ mainPc' = "exit"
          /\ UNCHANGED <<main, processEnv, stored, ui>>
       \/ \E key \in KeysOf("anthropic") \cup {NoValue} :
             /\ ui' = Append(ui, UI("key prompt", IF key = NoValue THEN <<>> ELSE <<key>>))
             /\ IF key = NoValue
                THEN /\ mainPc' = "exit"
                     /\ UNCHANGED <<main, processEnv, stored>>
                ELSE /\ main' = [main EXCEPT !.apiKey = key]
                     /\ processEnv' = [processEnv EXCEPT !["anthropic"] = key]
                     /\ stored' = Config(NoValue, NoValue, key, NoValue, Null)
                     /\ mainPc' = "generate"
    /\ UNCHANGED <<app, index, worktree, attempts, outside>>

\* the second main, the catch block after an authentication error
NewKey ==
    /\ mainPc = "auth"
    /\ \/ /\ mainPc' = "exit"
          /\ UNCHANGED <<main, processEnv, stored, ui>>
       \/ \E key \in KeysOf(main.config.provider) \cup {NoValue} :
             /\ ui' = Append(ui, UI("key prompt", IF key = NoValue THEN <<>> ELSE <<key>>))
             /\ IF key = NoValue
                THEN /\ mainPc' = "exit"
                     /\ UNCHANGED <<main, processEnv, stored>>
                ELSE LET config == WithKey(main.config, main.config.provider, key)
                     IN  /\ main' = [main EXCEPT !.apiKey = key, !.config = config]
                         /\ stored' = config
                         /\ processEnv' = [processEnv EXCEPT ![config.provider] = key]
                         /\ mainPc' = "generate"
    /\ UNCHANGED <<app, index, worktree, attempts, outside>>

\* the first main, the two confirms after the proposed message
Review1 ==
    /\ mainPc = "review1"
    /\ \/ /\ mainPc' = "commit"
          /\ ui' = Append(ui, UI("commit chosen", main.commitMessage))
       \/ /\ mainPc' \in {"generate", "exit"}
          /\ UNCHANGED ui
    /\ UNCHANGED <<processEnv, stored, app, index, worktree, main, attempts, outside>>

\* the second main, 'Yes, commit' or a cancelled select
ReviewCommit ==
    /\ mainPc = "review"
    /\ \/ /\ mainPc' = "commit"
          /\ ui' = Append(ui, UI("commit chosen", main.commitMessage))
       \/ /\ mainPc' = "exit"
          /\ UNCHANGED ui
    /\ UNCHANGED <<processEnv, stored, app, index, worktree, main, attempts, outside>>

\* the second main, 'Edit message' (offered for a message of one line): the
\* text prompt and the select about the edited message; `continue` and the
\* end of the loop body both lead to the head of while (!confirmed)
ReviewEdit ==
    /\ mainPc = "review"
    /\ ~Includes(main.commitMessage, <<NL>>)
    /\ \/ /\ ui' = Append(ui, UI("edit cancelled", main.commitMessage))
          /\ mainPc' = "generate"
          /\ UNCHANGED main
       \/ \E edited \in Edits :
          \E confirmEdited \in {"cancel", "yes", "no"} :
             /\ main' = [main EXCEPT !.commitMessage = edited]
             /\ ui' = ui \o <<UI("edited", edited),
                            UI(CASE confirmEdited = "yes" -> "edit accepted"
                                 [] confirmEdited = "no" -> "edit rejected"
                                 [] OTHER -> "confirm cancelled", edited)>>
             /\ mainPc' = IF confirmEdited = "yes" THEN "commit" ELSE "generate"
    /\ UNCHANGED <<processEnv, stored, app, index, worktree, attempts, outside>>

\* a faulty variant of FeedbackOf: what was typed is passed as it is
FeedbackAsTyped(feedback) == StrArg(feedback)

\* userFeedback = feedback && feedback.trim() !== '' ? feedback : undefined
FeedbackOf(feedback) ==
    IF feedback # <<>> /\ Trim(feedback) # <<>> THEN StrArg(feedback) ELSE Missing

\* the second main, 'Regenerate': the question, the feedback prompt
ReviewRegenerate ==
    /\ mainPc = "review"
    /\ \/ /\ mainPc' = "exit"
          /\ UNCHANGED <<main, ui>>
       \/ \E feedback \in Feedbacks :
             /\ main' = [main EXCEPT !.userFeedback = FeedbackOf(feedback)]
             /\ ui' = Append(ui, UI("regenerate", feedback))
             /\ mainPc' = "generate"
    /\ UNCHANGED <<processEnv, stored, app, index, worktree, attempts, outside>>

\* what the user answers in the settings menu: the choice (or a cancelled
\* select), the provider selected, the key typed and the preferences chosen;
\* NoValue and Null stand for a cancelled prompt
SettingsAnswer(choice, provider, key, prefs) ==
    [choice |-> choice, provider |-> provider, key |-> key, prefs |-> prefs]

SettingsAnswers(config) ==
    { SettingsAnswer("cancel", NoValue, NoValue, Null) }
    \cup { SettingsAnswer("provider", NoValue, NoValue, Null) }
    \cup UNION { { SettingsAnswer("provider", p, k, Null) :
                     k \in (IF KeyField(config, p) # NoValue THEN {NoValue}
                            ELSE KeysOf(p) \cup {NoValue}) } :
                 p \in Providers }
    \cup { SettingsAnswer("apikey", NoValue, k, Null) :
             k \in KeysOf(config.provider) \cup {NoValue} }
    \cup { SettingsAnswer("preferences", NoValue, NoValue, prefs) :
             prefs \in PreferenceSets \cup {Null} }

\* how showSettingsMenu ends: process.exit inside a prompt, or a return of
\* null or of the new config; written tells whether storeConfig ran
SettingsResult(exit, result, written) ==
    [exit |-> exit, result |-> result, written |-> written]

\* showSettingsMenu(currentConfig)
ShowSettingsMenu(currentConfig, answer) ==
    CASE answer.choice = "cancel" -> SettingsResult(FALSE, Null, FALSE)
      [] answer.choice = "provider" ->
            IF answer.provider = NoValue THEN SettingsResult(TRUE, Null, FALSE)
            ELSE LET newConfig == [currentConfig EXCEPT
                                      !.provider = answer.provider,
                                      !.model = DefaultModel(answer.provider)]
                 IN  IF KeyField(newConfig, answer.provider) # NoValue
                     THEN SettingsResult(FALSE, newConfig, TRUE)
                     ELSE IF answer.key = NoValue THEN SettingsResult(TRUE, Null, FALSE)
                     ELSE SettingsResult(FALSE,
                                         WithKey(newConfig, answer.provider, answer.key), TRUE)
      [] answer.choice = "apikey" ->
            IF answer.key = NoValue THEN SettingsResult(TRUE, Null, FALSE)
            ELSE SettingsResult(FALSE,
                                WithKey(currentConfig, currentConfig.provider, answer.key),
                                TRUE)
      [] OTHER ->
            IF answer.prefs = Null THEN SettingsResult(FALSE, Null, FALSE)
            ELSE SettingsResult(FALSE, [currentConfig EXCEPT !.preferences = answer.prefs],
                                TRUE)

\* a faulty variant of EnvAfterSettings: the variables are set from the config
\* in use also when the menu returned null
EnvFromConfig(processEnv0, config, settingsResult) ==
    LET c == IF settingsResult = Null THEN config ELSE settingsResult
    IN  [p \in Providers |->
            IF p # c.provider THEN NoValue
            ELSE IF KeyField(c, p) # NoValue THEN KeyField(c, p)
            ELSE ""]

\* if (settingsResult) { ...; process.env.ANTHROPIC_API_KEY =
\* config.ANTHROPIC_API_KEY || ''; delete process.env.GOOGLE_API_KEY; ... }
EnvAfterSettings(processEnv0, config, settingsResult) ==
    IF settingsResult = Null THEN processEnv0
    ELSE [p \in Providers |->
             IF p # settingsResult.provider THEN NoValue
             ELSE IF KeyField(settingsResult, p) # NoValue THEN KeyField(settingsResult, p)
             ELSE ""]

\* the second main, 'Change settings': showSettingsMenu, then config,
\* preferences and process.env updated
ReviewSettings ==
    /\ mainPc = "review"
    /\ \E answer \in SettingsAnswers(main.config) :
          LET r == ShowSettingsMenu(main.config, answer)
          IN  /\ stored' = IF r.written THEN r.result ELSE stored
              /\ IF r.exit
                 THEN /\ mainPc' = "exit"
                      /\ ui' = Append(ui, UI("settings left", <<answer.choice>>))
                      /\ UNCHANGED <<main, processEnv>>
                 ELSE /\ main' = IF r.result = Null THEN main
                                 ELSE [main EXCEPT
                                          !.config = r.result,
                                          !.preferences = IF r.result.preferences # Null
                                                          THEN r.result.preferences
                                                          ELSE main.preferences]
                      /\ processEnv' = EnvAfterSettings(processEnv, main.config, r.result)
                      /\ ui' = Append(ui, UI(IF r.result = Null THEN "settings cancelled"
                                             ELSE "settings", <<answer.choice>>))
                      /\ mainPc' = "generate"
    /\ UNCHANGED <<app, index, worktree, attempts, outside>>

\* "5. Commit" of both mains: await commit(commitMessage); git commit runs
\* without reject: false, so a failing commit rejects main
Commit ==
    /\ mainPc = "commit"
    /\ \E committed \in BOOLEAN :
          /\ ui' = ui \o <<UI("commit", main.commitMessage)>>
                      \o (IF committed THEN <<UI("committed", main.commitMessage)>> ELSE <<>>)
          /\ mainPc' = IF committed THEN "push" ELSE "failed"
          /\ index' = IF committed THEN 0 ELSE index
    /\ UNCHANGED <<processEnv, stored, app, worktree, main, attempts, outside>>

\* a faulty variant of Pushes: only 'No' keeps main from pushing
PushesUnlessNo(shouldPush) == shouldPush # "no"

\* if (isCancel(shouldPush)) { ...; process.exit(0) } if (shouldPush) { push() }
Pushes(shouldPush) == shouldPush = "yes"

\* "6. Push?" of both mains: the question, and push() inside try / catch
Push ==
    /\ mainPc = "push"
    /\ \E shouldPush \in {"cancel", "yes", "no"} :
       \E pushed \in BOOLEAN :
          /\ Pushes(shouldPush) \/ pushed
          /\ ui' = ui \o <<UI(CASE shouldPush = "yes" -> "push chosen"
                                  [] shouldPush = "no" -> "push declined"
                                  [] OTHER -> "push cancelled", <<>>)>>
                      \o (IF Pushes(shouldPush) THEN <<UI("push", <<>>)>> ELSE <<>>)
                      \o (IF Pushes(shouldPush) /\ pushed THEN <<UI("pushed", <<>>)>> ELSE <<>>)
          /\ mainPc' = "done"
    /\ UNCHANGED <<processEnv, stored, app, index, worktree, main, attempts, outside>>

MainNext ==
    \/ ResolveKey1
    \/ Preferences1
    \/ GetDiff1
    \/ LoadConfig
    \/ FirstTimeSetup
    \/ ResolveKey
    \/ CheckRepo
    \/ Preferences
    \/ CheckStaged
    \/ GuidedStaging
    \/ Preview
    \/ LargeChangesetWarning
    \/ Generate
    \/ NewKey1
    \/ NewKey
    \/ Review1
    \/ ReviewCommit
    \/ ReviewEdit
    \/ ReviewRegenerate
    \/ ReviewSettings
    \/ Commit
    \/ Push

MainSpec == MainInit /\ [][MainNext]_vars

(***************************************************************************)
(* Runs of the loop while (!confirmed) of the second main, followed for    *)
(* more calls of generateCommitMessage: main has read the config file,     *)
(* which names the provider, the model and the preferences, has taken the  *)
(* key from ANTHROPIC_API_KEY and has found one staged file.               *)
(***************************************************************************)
LoopInit ==
    /\ OutsideIdle
    /\ AuxIdle
    /\ LET config == Config("anthropic", DefaultModel("anthropic"), NoValue, NoValue,
                            [useConventionalCommits |-> FALSE,
                             commitMessageStyle |-> "descriptive"])
       IN  /\ stored = config
           /\ processEnv = [NoEnv EXCEPT !["anthropic"] = "sk-ant-2"]
           /\ initial = [program |-> "second", from |-> "loop", env |-> processEnv,
                         stored |-> config]
           /\ \E g \in GitAnswers(1) :
                 /\ ~IsEmpty(GetStagedDiffSmart(g))
                 /\ main = Locals(config, "sk-ant-2", config.preferences,
                                  GetStagedDiffSmart(g), Stats(1, 10, 2), <<>>, Missing)
    /\ mainPc = "generate"
    /\ app = Null
    /\ index = 1
    /\ worktree = 0
    /\ attempts = <<>>
    /\ ui = <<>>

LoopNext ==
    \/ Generate
    \/ NewKey
    \/ ReviewCommit
    \/ ReviewEdit
    \/ ReviewRegenerate
    \/ ReviewSettings
    \/ Commit
    \/ Push

LoopSpec == LoopInit /\ [][LoopNext]_vars

(***************************************************************************)
(* Runs of listDirTool between readdir and return: files.map(async f =>    *)
(* ...) starts one stat per entry, the lookups complete in any order, and  *)
(* Promise.all resolves when all have settled.                             *)
(***************************************************************************)
\* the names a directory may hold
AllNames == <<"a", "b", "c", "d", "e">>

\* the slot of a promise that has not settled
Pending == [name |-> <<>>, tag |-> "pending"]

\* a faulty variant of Settle: the values are collected as the promises settle
SettleInCompletionOrder(results, i, value) ==
    LET k == CHOOSE j \in 1..Len(results) :
                /\ results[j] = Pending
                /\ \A l \in 1..(j - 1) : results[l] # Pending
    IN  [results EXCEPT ![k] = value]

\* Promise.all: the value of the promise at index i takes index i of the result
Settle(results, i, value) == [results EXCEPT ![i] = value]

\* readdir has returned and every stat has been started
ListInit ==
    /\ OutsideIdle
    /\ MainIdle
    /\ recent = Recent("idle", <<>>, <<>>, <<>>)
    /\ \E n \in 0..MaxEntries :
       \E st \in [1..n -> {"dir", "file", "fail"}] :
          listing = Listing("stats",
                            [i \in 1..n |-> [name |-> <<AllNames[i]>>, stat |-> st[i]]],
                            <<>>, [i \in 1..n |-> Pending], <<>>)

\* the stat of one entry completes or fails, and its async callback returns
\* the line of the entry
StatSettles ==
    /\ listing.pc = "stats"
    /\ \E i \in 1..Len(listing.entries) :
          /\ \A k \in 1..Len(listing.settled) : listing.settled[k] # i
          /\ listing' = [listing EXCEPT
                            !.settled = Append(@, i),
                            !.results = Settle(@, i, ListDirLine(listing.entries[i]))]
    /\ UNCHANGED <<graphVars, sanVars, diffVars, mainVars, recent>>

\* await Promise.all(...) resumes once every promise has settled:
\* return result.join('\n')
ListDirReturns ==
    /\ listing.pc = "stats"
    /\ Len(listing.settled) = Len(listing.entries)
    /\ listing' = [listing EXCEPT !.pc = "returned", !.lines = listing.results]
    /\ UNCHANGED <<graphVars, sanVars, diffVars, mainVars, recent>>

ListNext ==
    \/ StatSettles
    \/ ListDirReturns

ListSpec == ListInit /\ [][ListNext]_vars

(***************************************************************************)
(* Runs of getRecentCommits: git log --pretty=format:%h|%s prints one line *)
(* per commit, the abbreviated hash, a bar and the subject; a failing git  *)
(* prints nothing.                                                         *)
(***************************************************************************)
BAR == "|"

\* String.prototype.split(sep) for a separator of one character
RECURSIVE SplitBy(_, _)
SplitBy(s, sep) ==
    IF \E i \in 1..Len(s) : s[i] = sep
    THEN LET i == CHOOSE j \in 1..Len(s) : s[j] = sep /\ \A k \in 1..(j - 1) : s[k] # sep
         IN  <<SubSeq(s, 1, i - 1)>> \o SplitBy(Drop(s, i), sep)
    ELSE <<s>>

\* Array.prototype.join(sep)
RECURSIVE JoinBy(_, _)
JoinBy(parts, sep) ==
    IF parts = <<>> THEN <<>>
    ELSE IF Len(parts) = 1 THEN parts[1]
    ELSE parts[1] \o <<sep>> \o JoinBy(Tail(parts), sep)

\* a faulty variant of ParseLine: const [hash, message] = line.split('|')
ParseLineTwoParts(line) ==
    LET parts == SplitBy(line, BAR)
    IN  [hash |-> parts[1], message |-> IF Len(parts) > 1 THEN parts[2] ELSE <<>>]

\* const [hash, ...messageParts] = line.split('|');
\* return { hash, message: messageParts.join('|') }
ParseLine(line) ==
    LET parts == SplitBy(line, BAR)
    IN  [hash |-> parts[1], message |-> JoinBy(Tail(parts), BAR)]

\* if (!stdout) return []; return stdout.split('\n').map(line => ...)
GetRecentCommits(stdout) ==
    IF stdout = <<>> THEN <<>>
    ELSE [i \in 1..Len(Split(stdout)) |-> ParseLine(Split(stdout)[i])]

\* the abbreviated hashes and the subjects of the commits of a history
Hashes == { <<"a", "1">>, <<"b", "2">> }

Subjects ==
    { <<>>, <<"x">>, <<"x", BAR, "y">>, <<BAR>>, <<"a", BAR, BAR, "b">>, <<BAR, "z", BAR>> }

\* what git log prints for the commits: %h|%s for each, one per line
GitLog(commits) ==
    Join([i \in 1..Len(commits) |-> commits[i].hash \o <<BAR>> \o commits[i].subject])

\* execa has resolved with the stdout of git log, which is empty when git fails
RecentInit ==
    /\ OutsideIdle
    /\ MainIdle
    /\ listing = Listing("idle", <<>>, <<>>, <<>>, <<>>)
    /\ \E n \in 0..MaxCommits :
       \E commits \in [1..n -> [hash : Hashes, subject : Subjects]] :
       \E failed \in BOOLEAN :
          recent = Recent("in", commits, IF failed THEN <<>> ELSE GitLog(commits), <<>>)

\* getRecentCommits returns
RecentCommits ==
    /\ recent.pc = "in"
    /\ recent' = [recent EXCEPT !.pc = "out", !.entries = GetRecentCommits(recent.stdout)]
    /\ UNCHANGED <<graphVars, sanVars, diffVars, mainVars, listing>>

RecentNext == RecentCommits

RecentSpec == RecentInit /\ [][RecentNext]_vars

(***************************************************************************)
(* Properties of the graph (checked under Spec).                           *)
(***************************************************************************)
LastMessage == messages[Len(messages)]

\* the number of tool-call requests an Assistant message carries
Requests(m) == Len(ToolCallsOf(m))

\* C1: whenever the Assistant message the agent node appended last carries zero
\* tool-call requests (its tool-call list absent or empty in both places the
\* router looks at), the session is at END with no TOOLS turn in between, and
\* the sanitizer is handed the content of exactly that message.
C1_ZeroRequestsGoToEnd ==
    (/\ Len(messages) > 2
     /\ LastMessage.role = "ai"
     /\ LastMessage.raw \in {"absent", "empty"}
     /\ Requests(LastMessage) = 0
     /\ modelError = NoValue)
    => /\ node \in {"end", "done"}
       /\ node = "done" =>
             returned = Sanitize(LastMessage.content, preferences.useConventionalCommits)

\* C2, as stated: an Assistant message with N >= 1 tool-call requests is always
\* followed by a TOOLS turn working on its N calls.
C2_RequestsAlwaysReachTools ==
    (/\ Len(messages) > 2
     /\ LastMessage.role = "ai"
     /\ Requests(LastMessage) >= 1
     /\ modelError = NoValue)
    => /\ node = "tools"
       /\ Len(calls) = Requests(LastMessage)

\* C2, amended: an Assistant message with N >= 1 requests appended before the
\* graph run is out of steps starts one TOOLS turn on its N calls (at the last
\* superstep the run fails with the recursion error instead); the turn appends
\* nothing until it ends, then appends exactly N ToolResults, the i-th answering
\* the i-th request, and goes to AGENT, never to END or to another TOOLS turn.
C2_OneToolsTurnPerRequestingMessage ==
    [][/\ (node = "agent" /\ messages' # messages /\ Requests(messages'[Len(messages')]) >= 1)
          => \/ /\ node' = "tools"
                /\ Len(calls') = Requests(messages'[Len(messages')])
                /\ \A i \in 1..Len(calls') :
                      /\ calls'[i].phase = "pending"
                      /\ calls'[i].call = messages'[Len(messages')].tool_calls[i]
             \/ /\ step' >= RecursionLimit
                /\ node' = "failed"
                /\ thrown' = "GraphRecursionError"
                /\ calls' = <<>>
       /\ (node = "tools" /\ node' = "tools")
          => messages' = messages /\ toolTurns' = toolTurns
       /\ node = "tools" => node' \in {"tools", "agent"}
       /\ (node = "tools" /\ node' = "agent")
          => /\ LastMessage.role = "ai"
             /\ Len(messages') = Len(messages) + Requests(LastMessage)
             /\ SubSeq(messages', 1, Len(messages)) = messages
             /\ toolTurns' = toolTurns + 1
             /\ \A i \in 1..Requests(LastMessage) :
                   /\ messages'[Len(messages) + i].role = "tool"
                   /\ messages'[Len(messages) + i].tool_call_id
                         = LastMessage.tool_calls[i].id
    ]_vars

\* C2: a TOOLS turn of two calls has ended, its two results are in the transcript
\* behind the requesting message and the agent node is entered again.
C2_Witness ==
    /\ node = "agent"
    /\ Len(messages) = 5
    /\ messages[3].role = "ai"
    /\ Requests(messages[3]) = 2
    /\ messages[4].role = "tool"
    /\ messages[5].role = "tool"
    /\ messages[5].tool_call_id = messages[3].tool_calls[2].id

\* C3, as stated: at most one tool handler of the session is in flight.
C3_AtMostOneHandlerInFlight ==
    Cardinality({i \in 1..Len(calls) : HandlerInFlight(calls[i])}) <= 1

\* C3, amended: the calls of a TOOLS turn are started in request order without
\* waiting for one another (handlers overlap and return in any order); the turn
\* ends only when every call has settled, and the results are then appended in
\* request order.
C3_StartedInOrderJoinedAtEnd ==
    [][/\ \A i \in 1..Len(calls) :
             (node' = "tools" /\ calls[i].phase = "pending" /\ calls'[i].phase # "pending")
             => \A j \in 1..(i - 1) : calls[j].phase # "pending"
       /\ (node = "tools" /\ node' # "tools")
          => /\ \A i \in 1..Len(calls) : calls[i].phase = "done"
             /\ messages' = messages \o [i \in 1..Len(calls) |-> calls[i].msg]
             /\ \A i \in 1..Len(calls) : calls[i].msg.tool_call_id = calls[i].call.id
    ]_vars

\* C3: the handler of the second call has returned while the handler of the
\* first call is still in flight.
C3_Witness ==
    /\ node = "tools"
    /\ Len(calls) = 2
    /\ HandlerInFlight(calls[1])
    /\ calls[2].phase = "done"
    /\ calls[2].ran

\* C4: the transcript starts as exactly [System, User]; every step keeps the
\* previous transcript as a prefix of the next; the agent node appends one
\* Assistant message and the tools node appends only ToolResults.
C4_TranscriptAppendOnly ==
    /\ (Len(messages) = 2 /\ messages[1].role = "system" /\ messages[2].role = "human")
    /\ [][/\ Len(messages') >= Len(messages)
          /\ SubSeq(messages', 1, Len(messages)) = messages
          /\ (node = "agent" /\ messages' # messages)
             => /\ Len(messages') = Len(messages) + 1
                /\ messages'[Len(messages')].role = "ai"
          /\ node = "tools"
             => \A i \in (Len(messages) + 1)..Len(messages') : messages'[i].role = "tool"
          /\ node \notin {"agent", "tools"} => messages' = messages
       ]_vars

\* C4: a transcript that grew by an Assistant message and its ToolResult.
C4_Witness ==
    /\ Len(messages) >= 5
    /\ messages[1].role = "system"
    /\ messages[2].role = "human"
    /\ messages[3].role = "ai"
    /\ messages[4].role = "tool"
    /\ messages[5].role = "ai"

\* C5: once model.invoke has failed, generateCommitMessage has ended with that
\* same error and returned no message, and nothing happens any more: no model
\* call, no tool call, no change of the transcript.
C5_ModelFailurePropagates ==
    [][/\ modelError' # NoValue
          => /\ node' = "failed"
             /\ thrown' = modelError'
             /\ returned' = NoValue
       /\ modelError # NoValue
          => UNCHANGED <<modelCalls, calls, messages, toolTurns, modelError, thrown>>
    ]_vars

\* C5: the model call of a later turn (after a TOOLS turn) has failed.
C5_Witness ==
    /\ modelError # NoValue
    /\ thrown = modelError
    /\ toolTurns >= 1
    /\ node = "failed"

\* the tool calls whose arguments fail the schema of their tool
FailsSchema(call) ==
    \/ call.name \in {"read_file", "git_show_file_diff"} /\ call.args.filePath.t # "string"
    \/ call.name = "list_dir" /\ call.args.dirPath.t # "string"
    \/ call.name = "git_commit_history" /\ call.args.count.t \notin {"number", "undefined"}

\* the strings a handler builds when its file-system or git access failed or
\* was refused
FailureKinds ==
    {"Error reading file", "Error listing directory", "Error getting commit history",
     "Error getting staged files", "Error getting unstaged files",
     "Error getting untracked files", "Error getting file diff", "too large"}

\* C6: every run of one of the seven handlers ends by returning a string, never
\* by throwing, whatever the path and whatever the file system or git did; the
\* call yields a ToolResult with that string and the session is still running.
C6_HandlersNeverRaise ==
    \A i \in 1..Len(calls) :
        (calls[i].phase = "done" /\ calls[i].ran)
        => /\ ~calls[i].threw
           /\ calls[i].msg.role = "tool"
           /\ calls[i].msg.status = "success"
           /\ calls[i].msg.result.kind \notin {"none", "error", "Error: handler threw"}
           /\ calls[i].msg.tool_call_id = calls[i].call.id
           /\ node = "tools"
           /\ thrown = NoValue

\* C6: a handler whose file-system access failed has returned its error string.
C6_Witness ==
    \E i \in 1..Len(calls) :
        /\ calls[i].phase = "done"
        /\ calls[i].ran
        /\ calls[i].msg.result.kind \in FailureKinds
        /\ calls[i].msg.status = "success"

\* C7: a tool call whose arguments fail the schema never runs the handler (no
\* log line, no file-system or git access), settles with a tool error result
\* for that call, which is the result appended for it, and does not abort the
\* session.
C7_SchemaFailureSkipsHandler ==
    /\ \A i \in 1..Len(calls) :
          (calls[i].phase = "done" /\ FailsSchema(calls[i].call))
          => /\ ~calls[i].ran
             /\ calls[i].trace = <<>>
             /\ calls[i].msg.status = "error"
             /\ calls[i].msg.result.kind = "Error: input did not match schema"
             /\ calls[i].msg.tool_call_id = calls[i].call.id
             /\ node = "tools"
             /\ thrown = NoValue
    /\ \A k \in 1..Len(messages) :
          messages[k].role = "ai"
          => \A j \in 1..Requests(messages[k]) :
                (FailsSchema(messages[k].tool_calls[j]) /\ k + j <= Len(messages))
                => /\ messages[k + j].role = "tool"
                   /\ messages[k + j].status = "error"
                   /\ messages[k + j].result.kind = "Error: input did not match schema"
                   /\ messages[k + j].tool_call_id = messages[k].tool_calls[j].id

\* C7: the error result of a call with bad arguments is in the transcript and
\* the agent node has been entered again.
C7_Witness ==
    /\ node = "agent"
    /\ Len(messages) >= 4
    /\ messages[3].role = "ai"
    /\ Requests(messages[3]) >= 1
    /\ FailsSchema(messages[3].tool_calls[1])
    /\ messages[4].role = "tool"
    /\ messages[4].status = "error"

\* the TOOLS turns a graph run can complete within its supersteps
MaxToolTurns == (RecursionLimit - 1) \div 2

C9_SanitizeIdempotent == sanPc = "twice" => sanOut2 = sanOut1

\* the text after steps 1-3 of a sanitizer run
AfterStep3 == ApplyPatterns(Trim(sanIn))

\* the one-based indexes of the lines that start with a prefix
PrefixLines(ls) ==
    {i \in 1..Len(ls) :
        \E p \in CommitPrefixes : StartsWith(ToLowerCase(Trim(ls[i])), p)}

\* step 4 applies and discards lines
Step4Discards ==
    LET ls == Split(AfterStep3)
        ks == PrefixLines(ls)
    IN  /\ sanPref
        /\ Len(ls) > 3
        /\ ks # {}
        /\ 1 \notin ks

\* C10: when useConventionalCommits is on, the text after steps 1-3 has more
\* than 3 lines and its first prefix line is at an index k > 0, the output is
\* lines k.. joined and trimmed and starts with a prefix; in every other case
\* the output is the text after steps 1-3, trimmed, with no line discarded.
C10_Step4 ==
    sanPc \in {"once", "twice"}
    => LET c3 == AfterStep3
           ls == Split(c3)
           ks == PrefixLines(ls)
       IN  IF sanPref /\ Len(ls) > 3 /\ ks # {} /\ 1 \notin ks
           THEN LET k == CHOOSE i \in ks : \A j \in ks : i <= j
                IN  /\ sanOut1 = Trim(Join(SubSeq(ls, k, Len(ls))))
                    /\ \E p \in CommitPrefixes : StartsWith(ToLowerCase(sanOut1), p)
           ELSE sanOut1 = Trim(c3)

\* C10: a run in which step 4 discarded the lines before the prefix line.
C10_Witness ==
    /\ sanPc = "once"
    /\ Step4Discards
    /\ sanOut1 # Trim(AfterStep3)
    /\ \E p \in CommitPrefixes : StartsWith(ToLowerCase(sanOut1), p)

\* a preamble phrase that t starts with, case-insensitively
StartsWithPhrase(t, i) ==
    /\ Len(t) >= Len(PreamblePhrases[i])
    /\ ToLowerCase(SubSeq(t, 1, Len(PreamblePhrases[i]))) = ToLowerCase(PreamblePhrases[i])

\* C11, as stated: when the trimmed content starts with one of the phrases and
\* a colon follows, everything up to and including the first following colon
\* and the whitespace after it is removed; otherwise step 2 changes nothing.
C11_PreambleUpToFollowingColon ==
    sanPc \in {"once", "twice"}
    => LET t == sanSteps[1]
           ps == {i \in 1..Len(PreamblePhrases) : StartsWithPhrase(t, i)}
           hits == UNION {{<<i, j>> : j \in
                              {j \in (Len(PreamblePhrases[i]) + 1)..Len(t) :
                                  /\ t[j] = ":"
                                  /\ \A k \in (Len(PreamblePhrases[i]) + 1)..(j - 1) :
                                        t[k] # ":"}} : i \in ps}
       IN  IF hits = {} THEN sanSteps[2] = t
           ELSE \A h \in hits : sanSteps[2] = TrimStart(SubSeq(t, h[2] + 1, Len(t)))

\* C11, amended: when the trimmed content starts with one of the phrases and a
\* colon follows on the same line (no line break between the phrase and the
\* colon), everything up to and including the first such colon and the
\* whitespace after it, line breaks included, is removed; when the content does
\* not start with a phrase, or the first line has no colon after the phrase,
\* step 2 changes nothing.
C11_PreambleUpToColonOnSameLine ==
    sanPc \in {"once", "twice"}
    => LET t == sanSteps[1]
           ps == {i \in 1..Len(PreamblePhrases) : StartsWithPhrase(t, i)}
           hits == UNION {{<<i, j>> : j \in
                              {j \in (Len(PreamblePhrases[i]) + 1)..Len(t) :
                                  /\ t[j] = ":"
                                  /\ \A k \in (Len(PreamblePhrases[i]) + 1)..(j - 1) :
                                        t[k] \notin {":", NL, "\r"}}} : i \in ps}
       IN  /\ t = Trim(sanIn)
           /\ IF hits = {} THEN sanSteps[2] = t
              ELSE \A h \in hits :
                      /\ sanSteps[2] = TrimStart(SubSeq(t, h[2] + 1, Len(t)))
                      /\ Len(sanSteps[2]) < Len(t)
                      /\ sanSteps[2] # <<>> => ~IsSpace(sanSteps[2][1])

\* C11: a run whose content starts with a phrase and a colon on the first
\* line, with text on the next line: the preamble and the line break are gone.
C11_Witness ==
    /\ sanPc = "once"
    /\ \E i \in 1..Len(PreamblePhrases) : StartsWithPhrase(sanSteps[1], i)
    /\ sanSteps[2] # sanSteps[1]
    /\ sanSteps[2] # <<>>
    /\ \E k \in 1..Len(sanSteps[1]) : sanSteps[1][k] = NL

(***************************************************************************)
(* Properties of whole sessions and of the tool handlers (checked under    *)
(* Spec).                                                                  *)
(***************************************************************************)
\* a text of one line that begins with a conventional-commit prefix
SingleLineWithPrefix(content) ==
    /\ \A k \in 1..Len(content) : content[k] # NL
    /\ \E p \in CommitPrefixes : StartsWith(content, p)

\* C12: when the first model response carries no tool calls and its content is
\* a single line that begins with a conventional-commit prefix, the session
\* ends after one model call and no tool call, and generateCommitMessage
\* returns exactly that content, whatever the preferences.
C12_PlainAnswerReturnedUnchanged ==
    (/\ Len(messages) >= 3
     /\ messages[3].role = "ai"
     /\ Requests(messages[3]) = 0
     /\ SingleLineWithPrefix(messages[3].content))
    => /\ node \in {"end", "done"}
       /\ modelCalls = 1
       /\ toolTurns = 0
       /\ calls = <<>>
       /\ Len(messages) = 3
       /\ node = "done" => returned = messages[3].content

\* the runs of the read_file handler that have returned
ReadFileRuns ==
    {i \in 1..Len(calls) :
        calls[i].phase = "done" /\ calls[i].ran /\ calls[i].call.name = "read_file"}

\* the events of one kind in the trace of a run
Events(c, ev) == {k \in 1..Len(c.trace) : c.trace[k].ev = ev}

\* C13: a read_file run whose stat answers a size of 50,001 or more returns the
\* 'too large' refusal and never reads the file; a run whose stat answers a
\* size of 50,000 or less reads the file and, when the read succeeds, returns
\* its content (whole or truncated).
C13_RefusedAboveMaxSize ==
    \A i \in ReadFileRuns :
        \A k \in Events(calls[i], "stat") :
            /\ calls[i].trace[k].n >= 50001
               => /\ calls[i].msg.result.kind = "too large"
                  /\ calls[i].msg.result.path = calls[i].call.args.filePath.v
                  /\ Events(calls[i], "readFile") = {}
            /\ (calls[i].trace[k].n >= 0 /\ calls[i].trace[k].n <= 50000)
               => /\ calls[i].msg.result.kind # "too large"
                  /\ \E r \in Events(calls[i], "readFile") :
                        /\ r > k
                        /\ calls[i].trace[r].n >= 0
                           => calls[i].msg.result.kind \in {"content", "content truncated"}

\* C13: a file of 50,001 bytes has been refused.
C13_Witness ==
    \E i \in ReadFileRuns :
        /\ \E k \in Events(calls[i], "stat") : calls[i].trace[k].n = 50001
        /\ calls[i].msg.result.kind = "too large"

\* C14: a read_file run whose readFile answers L <= 10,000 characters returns
\* the content unchanged; for L > 10,000 it returns the first 10,000 characters
\* followed by a marker stating L - 10,000; no result of a successful read
\* carries more than 10,000 characters of the file.
C14_TruncatedAboveMaxChars ==
    \A i \in ReadFileRuns :
        /\ \A k \in Events(calls[i], "readFile") :
              LET L == calls[i].trace[k].n
                  path == calls[i].call.args.filePath.v
              IN  /\ (L >= 0 /\ L <= 10000)
                     => calls[i].msg.result = Text("content", path, L, 0, <<>>)
                  /\ L > 10000
                     => calls[i].msg.result
                           = Text("content truncated", path, 10000, L - 10000, <<>>)
        /\ calls[i].msg.result.kind \in {"content", "content truncated"}
           => calls[i].msg.result.n <= 10000

\* C14: a content of 10,001 characters has been truncated, one character left out.
C14_Witness ==
    \E i \in ReadFileRuns :
        /\ \E k \in Events(calls[i], "readFile") : calls[i].trace[k].n = 10001
        /\ calls[i].msg.result.kind = "content truncated"
        /\ calls[i].msg.result.m = 1

\* the path argument of a read_file or list_dir call
PathOf(call) ==
    IF call.name = "read_file" THEN call.args.filePath.v ELSE call.args.dirPath.v

\* the path holds two dots in a row
HasTraversal(p) == \E k \in 1..(Len(p) - 1) : p[k] = "." /\ p[k + 1] = "."

\* C15: a read_file or list_dir run on a path that contains '..' returns an
\* error string and performs no stat, readFile or readdir.
C15_TraversalRejected ==
    \A i \in 1..Len(calls) :
        (/\ calls[i].phase = "done"
         /\ calls[i].ran
         /\ calls[i].call.name \in {"read_file", "list_dir"}
         /\ HasTraversal(PathOf(calls[i].call)))
        => /\ calls[i].msg.status = "success"
           /\ calls[i].msg.result.kind
                 = (IF calls[i].call.name = "read_file"
                    THEN "Error reading file" ELSE "Error listing directory")
           /\ calls[i].msg.result.path
                 = PathOf(calls[i].call) \o <<":">> \o ParentDirsMessage
           /\ \A k \in 1..Len(calls[i].trace) :
                 calls[i].trace[k].ev \notin {"stat", "readFile", "readdir"}

\* C15: a list_dir run on '../x' has returned its error string.
C15_Witness ==
    \E i \in 1..Len(calls) :
        /\ calls[i].phase = "done"
        /\ calls[i].ran
        /\ calls[i].call.name = "list_dir"
        /\ HasTraversal(PathOf(calls[i].call))
        /\ calls[i].msg.result.kind = "Error listing directory"

\* the runs of the git_commit_history handler that have returned
CommitHistoryRuns ==
    {i \in 1..Len(calls) :
        /\ calls[i].phase = "done"
        /\ calls[i].ran
        /\ calls[i].call.name = "git_commit_history"}

\* the count a git_commit_history call asks for, the default filled in
RequestedCount(call) ==
    IF call.args.count.t = "undefined" THEN 5 ELSE call.args.count.k

\* C16: for every numeric count the schema accepts, the limit of the history
\* query is min(count, 5), and the run returns 5 subject lines or fewer.
C16_AtMostFiveSubjects ==
    \A i \in CommitHistoryRuns :
        /\ \E k \in Events(calls[i], "log") :
              calls[i].trace[k].n = Min(RequestedCount(calls[i].call), 5)
        /\ calls[i].msg.result.kind = "stdout" => calls[i].msg.result.n <= 5

\* C17: no run of a tool handler changes the working tree, the index, the
\* history or any file, whatever the arguments: no run writes.
C17_HandlersReadOnly ==
    \A i \in 1..Len(calls) :
        calls[i].phase = "done" => Events(calls[i], "write") = {}

\* what the log line of each tool says
LoggedAction(name) ==
    CASE name = "read_file" -> "reading"
      [] name = "list_dir" -> "listing directory"
      [] name = "git_commit_history" -> "checking last commits"
      [] name = "git_staged_files" -> "listing staged files"
      [] name = "git_unstaged_files" -> "listing unstaged files"
      [] name = "git_untracked_files" -> "listing untracked files"
      [] name = "git_show_file_diff" -> "viewing diff for"

ListDirRuns ==
    {i \in 1..Len(calls) :
        /\ calls[i].phase = "done"
        /\ calls[i].ran
        /\ calls[i].call.name = "list_dir"
        /\ \E k \in Events(calls[i], "readdir") : calls[i].trace[k].n >= 0}

\* C19: list_dir returns one line per entry readdir returned, in order: the
\* name with '(DIR)' or '(FILE)' when the stat of the entry succeeds, the bare
\* name when it fails; a failing stat neither makes the result an error string
\* nor drops another entry.
C19_OneLinePerEntry ==
    \A i \in ListDirRuns :
        LET c == calls[i]
            dirPath == c.call.args.dirPath.v
            n == c.trace[2].n
            lines == c.msg.result.lines
        IN  /\ c.trace[2].ev = "readdir"
            /\ c.msg.status = "success"
            /\ c.msg.result.kind = "listing"
            /\ Len(lines) = n
            /\ Len(c.trace) = 2 + n
            /\ \A j \in 1..n :
                  LET e == c.trace[2 + j]
                  IN  /\ e.ev = "stat"
                      /\ e.path = dirPath \o <<"/">> \o lines[j].name
                      /\ lines[j].tag = (IF e.n = -1 THEN ""
                                         ELSE IF e.n = 1 THEN "(DIR)" ELSE "(FILE)")

\* C19: a listing of two entries, the first a directory, the stat of the second
\* failed: both are listed.
C19_Witness ==
    \E i \in ListDirRuns :
        /\ Len(calls[i].msg.result.lines) = 2
        /\ calls[i].trace[3].n = 1
        /\ calls[i].trace[4].n = -1
        /\ calls[i].msg.result.lines[1].tag = "(DIR)"
        /\ calls[i].msg.result.lines[2] = [name |-> EntryNames[2], tag |-> ""]

(***************************************************************************)
(* Properties of getStagedDiffSmart (checked under DiffSpec).              *)
(***************************************************************************)
\* C20, as stated: for a non-empty file list, an estimate length/4 under 2000
\* yields the 1-line-context bundle, and an estimate at or above 2000 (a diff
\* of 8000 characters or more) yields the 0-line-context bundle.
C20_NarrowAtOrAbove2000 ==
    (diffPc = "out" /\ staged.fileList # <<>>)
    => /\ staged.diff < 8000 => bundle.contextLevel = "Wide"
       /\ staged.diff >= 8000 => bundle.contextLevel = "Narrow"

\* C20, amended: for a non-empty file list, an estimate length/4 of at most
\* 2000 (a diff of up to 8000 characters) yields the 1-line-context bundle,
\* which embeds that diff; an estimate above 2000 (8001 characters or more)
\* yields the 0-line-context bundle, which embeds the 0-line-context diff and
\* states the number of files.
C20_NarrowAbove2000 ==
    (diffPc = "out" /\ staged.fileList # <<>>)
    => /\ bundle.fileList = staged.fileList
       /\ bundle.stats = staged.stats
       /\ staged.diff <= 8000
          => /\ bundle.contextLevel = "Wide"
             /\ bundle.diff = staged.diff
       /\ staged.diff >= 8001
          => /\ bundle.contextLevel = "Narrow"
             /\ bundle.diff = staged.compactDiff
             /\ bundle.fileCount = Len(Split(staged.fileList))

\* C20: a 1-line-context diff of exactly 8000 characters (estimate 2000) has
\* been returned with its 1 line of context.
C20_Witness ==
    /\ diffPc = "out"
    /\ staged.fileList # <<>>
    /\ staged.diff = 8000
    /\ bundle.contextLevel = "Wide"
    /\ bundle.diff = 8000

\* C21: for a non-empty file list, a 1-line-context diff whose length divided
\* by 4 is at most 2000 is returned in the Wide bundle (file list, stats and
\* that diff), and one whose quotient exceeds 2000 in the Narrow bundle; the
\* quotient is not rounded: 8000 characters are Wide, 8001, 8002 and 8003
\* characters are Narrow.
C21_WideUpTo2000NarrowAbove ==
    (diffPc = "out" /\ staged.fileList # <<>>)
    => /\ staged.diff <= 4 * 2000
          => /\ bundle.contextLevel = "Wide"
             /\ bundle.fileList = staged.fileList
             /\ bundle.stats = staged.stats
             /\ bundle.diff = staged.diff
       /\ staged.diff > 4 * 2000 => bundle.contextLevel = "Narrow"
       /\ staged.diff = 8000 => bundle.contextLevel = "Wide"
       /\ staged.diff \in {8001, 8002, 8003} => bundle.contextLevel = "Narrow"

\* C21: a diff of 8001 characters (an estimate of 2000.25) has been returned
\* in the Narrow bundle.
C21_Witness ==
    /\ diffPc = "out"
    /\ staged.fileList # <<>>
    /\ staged.diff = 8001
    /\ bundle.contextLevel = "Narrow"

\* C22: the Narrow bundle ends with the large-changeset note and states a
\* file count, which is the number of entries of the name-status list (one
\* entry, several entries, a rename entry with two paths); the Wide bundle
\* has neither the note nor a count.
C22_NarrowAnnotatedWithFileCount ==
    (diffPc = "out" /\ staged.fileList # <<>>)
    => /\ bundle.contextLevel = "Narrow"
          => /\ bundle.note = LargeChangesetNote
             /\ \A n \in 1..Len(FileNames) :
                    staged.fileList = NameStatus(SubSeq(FileNames, 1, n))
                    => bundle.fileCount = n
       /\ bundle.contextLevel = "Wide"
          => /\ bundle.note = NoValue
             /\ bundle.fileCount = NoValue

\* C22: a Narrow bundle for a list of two entries, the second a rename with
\* two paths, has been returned with the count 2.
C22_Witness ==
    /\ diffPc = "out"
    /\ staged.fileList = NameStatus(SubSeq(FileNames, 1, 2))
    /\ bundle.contextLevel = "Narrow"
    /\ bundle.fileCount = 2
    /\ bundle.note = LargeChangesetNote

\* C24: when the file list is non-empty and the stat query or a diff query
\* fails, getStagedDiffSmart does not reject: it returns a bundle with the
\* file list, in which the part of a failed query is empty and the part of a
\* query that succeeded is what git printed.
C24_FailedQueryIsEmptyPart ==
    (diffPc = "out" /\ staged.fileList # <<>>)
    => /\ bundle.contextLevel \in {"Wide", "Narrow"}
       /\ bundle.fileList = staged.fileList
       /\ bundle.stats = (IF "stats" \in staged.failed THEN 0 ELSE staged.stats)
       /\ bundle.contextLevel = "Wide"
          => bundle.diff = (IF "diff" \in staged.failed THEN 0 ELSE staged.diff)
       /\ bundle.contextLevel = "Narrow"
          => bundle.diff = (IF "compactDiff" \in staged.failed THEN 0
                            ELSE staged.compactDiff)

\* C24: with a non-empty file list, the 0-line-context query has failed after
\* the stat query succeeded, and a Narrow bundle with the stats and an empty
\* diff has been returned.
C24_Witness ==
    /\ diffPc = "out"
    /\ staged.fileList # <<>>
    /\ staged.failed = {"compactDiff"}
    /\ bundle.contextLevel = "Narrow"
    /\ bundle.stats = 40
    /\ bundle.diff = 0

(***************************************************************************)
(* Properties of the paths the file tools access (checked under Spec).     *)
(***************************************************************************)
\* the directory the process runs in: fs/promises resolves a relative path
\* against it
ProjectRoot == <<"/", "r", "e", "p", "o">>

\* the segments of a path between its slashes
RECURSIVE Segments(_)
Segments(p) ==
    IF \E i \in 1..Len(p) : p[i] = "/"
    THEN LET i == CHOOSE j \in 1..Len(p) : p[j] = "/" /\ \A k \in 1..(j - 1) : p[k] # "/"
         IN  <<SubSeq(p, 1, i - 1)>> \o Segments(Drop(p, i))
    ELSE <<p>>

\* walking the segments of a relative path from a directory `depth` levels
\* below the root climbs above the root
RECURSIVE ClimbsAbove(_, _)
ClimbsAbove(segs, depth) ==
    IF segs = <<>> THEN FALSE
    ELSE IF segs[1] = DotDot
         THEN depth = 0 \/ ClimbsAbove(Tail(segs), depth - 1)
    ELSE IF segs[1] \in {<<>>, <<".">>} THEN ClimbsAbove(Tail(segs), depth)
    ELSE ClimbsAbove(Tail(segs), depth + 1)

\* the file the path names, resolved as fs/promises resolves it, lies in the
\* project directory
InsideProject(p) ==
    IF p # <<>> /\ p[1] = "/"
    THEN /\ StartsWith(p, ProjectRoot \o <<"/">>)
         /\ ~ClimbsAbove(Segments(Drop(p, Len(ProjectRoot) + 1)), 0)
    ELSE ~ClimbsAbove(Segments(p), 0)

\* the runs of the read_file and list_dir handlers that have returned
FileToolRuns ==
    {i \in 1..Len(calls) :
        /\ calls[i].phase = "done"
        /\ calls[i].ran
        /\ calls[i].call.name \in {"read_file", "list_dir"}}

\* C29: whatever path the model supplies (relative, with '..', absolute),
\* every stat, readFile and readdir of a read_file or list_dir run is on a
\* path inside the project directory; a run on a path outside it returns
\* an error string without any such access.
C29_AccessesStayInsideProject ==
    \A i \in FileToolRuns :
        \A k \in 1..Len(calls[i].trace) :
            calls[i].trace[k].ev \in {"stat", "readFile", "readdir"}
            => InsideProject(calls[i].trace[k].path)

(***************************************************************************)
(* Properties of main (checked under MainSpec).                            *)
(***************************************************************************)
\* the event shown just before the 'Generating' spinner of attempt i
Before(i) == ui[attempts[i].at - 1]

\* the last message proposed before position k of ui
LastProposed(k) ==
    LET j == CHOOSE j \in 1..k :
                 /\ ui[j].ev = "proposed"
                 /\ \A l \in (j + 1)..k : ui[l].ev # "proposed"
    IN  ui[j].v

\* the number of API key prompts shown so far
KeyPrompts == Cardinality({k \in 1..Len(ui) : ui[k].ev = "key prompt"})

C26_RetryUsesNewKey ==
    \A i \in 2..Len(attempts) :
        (IsAuthError(attempts[i - 1].outcome) /\ Before(i).ev = "key prompt")
        => attempts[i].apiKey = attempts[i].envKey

\* C27: once main has chosen the API key: with the provider's environment
\* variable set it is that variable and no prompt was shown, whatever the
\* config file holds; otherwise with a key in the config file it is that key
\* and no prompt was shown; with neither there was one prompt and the key
\* typed is the key chosen and is stored.
C27_KeyPriority ==
    mainPc = "repo"
    => LET provider == IF initial.program = "first" THEN "anthropic"
                       ELSE main.config.provider
           fromEnv == initial.env[provider]
           fromFile == IF initial.stored = Null THEN NoValue
                       ELSE KeyField(initial.stored, provider)
       IN  /\ fromEnv # NoValue => (main.apiKey = fromEnv /\ KeyPrompts = 0)
           /\ (fromEnv = NoValue /\ fromFile # NoValue)
              => (main.apiKey = fromFile /\ KeyPrompts = 0)
           /\ (fromEnv = NoValue /\ fromFile = NoValue)
              => /\ KeyPrompts = 1
                 /\ main.apiKey \in KeysOf(provider)
                 /\ KeyField(stored, provider) = main.apiKey

\* C28: the diff payload of every call of generateCommitMessage, on every
\* path through main, is a bundle of the compactor (1-line or 0-line
\* context), never the full-context staged diff.
C28_PayloadIsPreReduced ==
    \A i \in 1..Len(attempts) : attempts[i].diff.contextLevel # "Full"

\* C30: after the edit prompt is cancelled, or the edited message is answered
\* with 'No, go back', the next thing shown is the message that was proposed
\* before the edit, and the model is not invoked in between.
C30_EditReturnsToReview ==
    \A k \in 1..(Len(ui) - 1) :
        ui[k].ev \in {"edit cancelled", "edit rejected"}
        => /\ ui[k + 1].ev = "proposed"
           /\ ui[k + 1].v = LastProposed(k)

\* the positions of ui at which an event of one kind stands
Shown(ev) == {k \in 1..Len(ui) : ui[k].ev = ev}

C31_WitnessError ==
    /\ mainPc = "returned"
    /\ attempts[Len(attempts)].outcome = OtherError

\* the pieces of an error message that make it an authentication error
Recognised(message) ==
    \E pattern \in {<<"401">>, <<"authentication_error">>, <<"invalid x-api-key">>,
                     <<"invalid api key">>, <<"API key not valid">>} :
        Includes(message, pattern)

\* C32: a failed call whose message holds none of the five pieces is the last
\* call of the run, and main has returned; a failed call whose message holds
\* one of them is followed by another call only after the key prompt, with
\* the key typed there in process.env and in the config file; otherwise the
\* run has ended or waits at the question or the prompt.
C32_RetryOnlyAfterNewKey ==
    \A i \in 1..Len(attempts) :
        attempts[i].outcome.kind = "error"
        => IF ~Recognised(attempts[i].outcome.v)
           THEN i = Len(attempts) /\ mainPc = "returned"
           ELSE /\ i < Len(attempts)
                   => /\ Before(i + 1).ev = "key prompt"
                      /\ Before(i + 1).v = <<attempts[i + 1].envKey>>
                /\ i = Len(attempts)
                   => \/ mainPc \in {"auth1", "auth", "exit"}
                      \/ /\ mainPc = "generate"
                         /\ ui[Len(ui)].ev = "key prompt"
                         /\ ui[Len(ui)].v = <<ModelKey>>
                         /\ KeyField(stored, IF initial.program = "first" THEN "anthropic"
                                              ELSE main.config.provider) = ModelKey

\* C32: a call has failed with an authentication error, the user has typed
\* another key, and a second call has been made.
C32_Witness ==
    /\ Len(attempts) = 2
    /\ IsAuthError(attempts[1].outcome)
    /\ Before(2).ev = "key prompt"
    /\ attempts[2].envKey = "sk-ant-2"

\* C34: when the call before 'Change settings' and the call after it see
\* configs that differ in the provider, the model or the key of the provider,
\* the call after it invokes a model of the new provider and model name that
\* holds the key now in process.env.
C34_SettingsReachTheModel ==
    \A i \in 2..Len(attempts) :
        LET a == attempts[i]
            b == attempts[i - 1]
        IN  (/\ Before(i).ev = "settings"
             /\ \/ a.config.provider # b.config.provider
                \/ a.config.model # b.config.model
                \/ KeyField(a.config, a.config.provider)
                      # KeyField(b.config, b.config.provider))
            => /\ a.graph.provider = a.config.provider
               /\ a.graph.model = a.config.model
               /\ a.graph.apiKey = a.envKey

\* the step is a visit of the settings menu that ends with the event ev after
\* the choice
SettingsStep(ev, choice) ==
    /\ mainPc = "review"
    /\ ui' = Append(ui, UI(ev, <<choice>>))

\* C35: a visit of the settings menu in which showSettingsMenu returns null
\* (Cancel, or a cancelled preferences prompt) leaves the config file, the
\* config and the preferences of main and both API-key environment variables
\* as they were.
C35_NullSettingsChangeNothing ==
    [][(SettingsStep("settings cancelled", "cancel")
        \/ SettingsStep("settings cancelled", "preferences"))
       => /\ stored' = stored
          /\ main'.config = main.config
          /\ main'.preferences = main.preferences
          /\ processEnv' = processEnv]_vars

\* C35: a preferences prompt of the settings menu has been cancelled in a run
\* whose key came from the environment, with no key in the config file.
C35_Witness ==
    /\ ui # <<>>
    /\ ui[Len(ui)] = UI("settings cancelled", <<"preferences">>)
    /\ KeyField(main.config, main.config.provider) = NoValue
    /\ processEnv[main.config.provider] = "sk-ant-2"
    /\ stored = main.config

\* C36: a visit of the settings menu that changes only the commit
\* preferences leaves the API-key environment variable of the provider as it
\* was, holding a non-empty key.
C36_PreferencesKeepCredentials ==
    [][SettingsStep("settings", "preferences")
       => /\ processEnv'[main.config.provider] = processEnv[main.config.provider]
          /\ processEnv'[main.config.provider] \notin {NoValue, ""}]_vars

\* C37: when main decides about the large-changeset warning, the statistics
\* it decides on are statistics of the files staged at that moment, also
\* after additional files were staged in the step before.
C37_WarningOnCurrentStats ==
    mainPc = "large"
    => /\ main.stats.files = index
       /\ \E stats \in StatsAnswers(index) :
             LargeChangeset(main.stats) = LargeChangeset(stats)
                /\ main.stats.insertions = stats.insertions

(***************************************************************************)
(* Properties of the loop of main (checked under LoopSpec).                *)
(***************************************************************************)
\* C33: the call made after the feedback prompt is passed the feedback typed
\* there, or none when it is empty or only whitespace; the call made after a
\* call that failed with an authentication error is passed the feedback of
\* the failed call; every other call (the first, and a call made after a
\* successful one without a new feedback prompt) is passed none; and the
\* variable is cleared once a call has returned, not before.
C33_FeedbackConsumedBySuccess ==
    /\ \A i \in 1..Len(attempts) :
          attempts[i].userFeedback
             = (IF i = 1 THEN Missing
                ELSE IF Before(i).ev = "regenerate"
                     THEN (IF Trim(Before(i).v) # <<>> THEN StrArg(Before(i).v) ELSE Missing)
                ELSE IF attempts[i - 1].outcome.kind = "error"
                     THEN attempts[i - 1].userFeedback
                ELSE Missing)
    /\ (attempts # <<>> /\ mainPc \in {"review", "auth", "returned"})
       => main.userFeedback
             = (IF attempts[Len(attempts)].outcome.kind = "message" THEN Missing
                ELSE attempts[Len(attempts)].userFeedback)

\* C33: the call made with the feedback 'short' has failed with an
\* authentication error, and the retry after the new key has been passed
\* 'short' again.
C33_Witness ==
    /\ Len(attempts) = 3
    /\ attempts[1].outcome.kind = "message"
    /\ attempts[2].userFeedback = StrArg(<<"s", "h", "o", "r", "t">>)
    /\ IsAuthError(attempts[2].outcome)
    /\ Before(3).ev = "key prompt"
    /\ attempts[3].userFeedback = StrArg(<<"s", "h", "o", "r", "t">>)

\* C33: a call with feedback has returned a message, and the call after it,
\* made after a cancelled edit, has been passed none.
C33_WitnessCleared ==
    /\ Len(attempts) = 3
    /\ attempts[2].userFeedback = StrArg(<<"s", "h", "o", "r", "t">>)
    /\ attempts[2].outcome.kind = "message"
    /\ Before(3).ev = "edit cancelled"
    /\ attempts[3].userFeedback = Missing

(***************************************************************************)
(* Properties of the concurrent stat lookups of list_dir (checked under    *)
(* ListSpec).                                                              *)
(***************************************************************************)
\* C38: in whatever order the stat lookups complete or fail, every value
\* stored so far stands at the index of its entry, and the lines returned
\* are as many as the entries, line i naming entry i with the tag its stat
\* gave (none when the stat failed).
C38_LinesInReaddirOrder ==
    /\ \A k \in 1..Len(listing.settled) :
          listing.results[listing.settled[k]].name
             = listing.entries[listing.settled[k]].name
    /\ listing.pc = "returned"
       => /\ Len(listing.lines) = Len(listing.entries)
          /\ \A i \in 1..Len(listing.entries) :
                /\ listing.lines[i].name = listing.entries[i].name
                /\ listing.lines[i].tag
                      = (CASE listing.entries[i].stat = "dir" -> "(DIR)"
                           [] listing.entries[i].stat = "file" -> "(FILE)"
                           [] OTHER -> "")

\* C38: a listing of three entries has been returned in which the stat of
\* the last entry completed first and the stat of the first entry failed last.
C38_Witness ==
    /\ listing.pc = "returned"
    /\ listing.settled = <<3, 2, 1>>
    /\ listing.entries[1].stat = "fail"
    /\ listing.entries[3].stat = "dir"
    /\ listing.lines[3] = [name |-> <<"c">>, tag |-> "(DIR)"]

(***************************************************************************)
(* Properties of getRecentCommits (checked under RecentSpec).              *)
(***************************************************************************)
\* C39: getRecentCommits returns one entry per line git log printed (none
\* when it printed nothing), and entry i has the hash of commit i and, as
\* its message, the whole subject of commit i, bars included.
C39_HashAndWholeSubject ==
    recent.pc = "out"
    => IF recent.stdout = <<>> THEN recent.entries = <<>>
       ELSE /\ Len(recent.entries) = Len(recent.commits)
            /\ Len(recent.entries) = Len(Split(recent.stdout))
            /\ \A i \in 1..Len(recent.commits) :
                  /\ recent.entries[i].hash = recent.commits[i].hash
                  /\ recent.entries[i].message = recent.commits[i].subject

\* C39: two commits have been returned, the first with a subject that holds
\* two bars in a row, the second with an empty subject.
C39_Witness ==
    /\ recent.pc = "out"
    /\ Len(recent.entries) = 2
    /\ recent.entries[1] = [hash |-> <<"a", "1">>, message |-> <<"a", BAR, BAR, "b">>]
    /\ recent.entries[2] = [hash |-> <<"b", "2">>, message |-> <<>>]

====
